---------------------------- MODULE Spec2Model ----------------------------
(***************************************************************************)
(* Model of the line quality check of OpenICGC/delimitapp                  *)
(* (src/qa_line/views.py, class CheckQualityLine).                         *)
(*                                                                         *)
(* Text is modelled as a sequence of tokens (strings); the character '-'   *)
(* is always a token of its own, so that str.split('-') can be computed.   *)
(* A run of digits is a token of its own too (see NumVal).                 *)
(*                                                                         *)
(* The process state is what the class shares between requests: the root   *)
(* logger's handler list, the log files on disk, the class-level dict      *)
(* response_data and the working geopackage WORK_GPKG.  Every request gets *)
(* a fresh view instance (django's as_view), whose attributes are the      *)
(* per-run variables below.                                                *)
(***************************************************************************)
EXTENDS Integers, Sequences, FiniteSets, TLC

\* ------------------------------------------------------------------ bounds
\* Number of requests served by the process.
MaxRuns == 2
\* Number of marker points in the inputs of the decimal-precision check.
MaxPoints == 2
\* Number of records in the inputs of the proposal-table checks.
MaxRecords == 2
\* Number of executions of a validator called on its own.
MaxCalls == 2

Runs == 1..MaxRuns
\* Line identifiers a request can carry (GET parameter 'line_id').
LineIds == {"1", "2"}
NoId == "none"

\* ------------------------------------------------------------------- text
DASH == "-"

RECURSIVE Concat(_)
\* ''.join of a sequence of token sequences (an f-string's parts).
Concat(parts) ==
    IF parts = <<>> THEN <<>> ELSE Head(parts) \o Concat(Tail(parts))

RECURSIVE SplitFrom(_, _, _)
\* str.split(sep): the list of the pieces between the separators.
SplitFrom(text, sep, cur) ==
    IF text = <<>> THEN <<cur>>
    ELSE IF Head(text) = sep THEN <<cur>> \o SplitFrom(Tail(text), sep, <<>>)
    ELSE SplitFrom(Tail(text), sep, Append(cur, Head(text)))

Split(text, sep) == SplitFrom(text, sep, <<>>)

\* s.split('-')[-1]
SplitLast(text) == LET p == Split(text, DASH) IN p[Len(p)]

\* line_id_2_txt: the line id as a 4-digit text
line_id_2_txt(line_id) == <<"000", line_id>>

\* current_date = datetime.now().strftime("%Y%m%d-%H%M"), fixed when the
\* class is defined.
current_date == <<"20210315", DASH, "1030">>

\* ---------------------------------------------------------------- logging
INFO == "INFO"
ERROR == "ERROR"

\* A log record as the validators emit it.
Entry(level, msg) == [level |-> level, msg |-> msg]

\* logging.Formatter("%(levelname)s - %(message)s")
log_format_sep == <<" ", DASH, " ">>
log_format(e) == <<e.level>> \o log_format_sep \o e.msg

\* A line of a log file: the formatted text, and (ghost) the run that emitted
\* it and its index among that run's emissions.
FileLine(e, r, k) == [text |-> log_format(e), run |-> r, k |-> k]
Hole == [text |-> <<>>, run |-> 0, k |-> 0]

RECURSIVE Pad(_, _)
Pad(lines, n) == IF Len(lines) >= n THEN lines ELSE Pad(Append(lines, Hole), n)

\* A write of one line through a stream opened with mode 'w' (no O_APPEND):
\* it lands at the stream's own offset.
WriteAt(lines, pos, ln) ==
    LET padded == Pad(lines, pos) IN
    [i \in 1..(IF Len(padded) > pos + 1 THEN Len(padded) ELSE pos + 1) |->
        IF i = pos + 1 THEN ln ELSE padded[i]]

WriteAppend(lines, pos, ln) == Append(lines, ln)

\* FileHandler(filename, mode='w'): where a line goes.
StreamWrite(lines, pos, ln) == WriteAt(lines, pos, ln)

NoFile == [exists |-> FALSE, lines |-> <<>>]
EmptyFile == [exists |-> TRUE, lines |-> <<>>]

\* FileHandler.emit of python 3.7 for one handler: a closed handler (stream
\* is None) reopens its file with its mode 'w', which truncates it; a handler
\* whose file was unlinked while open writes to the orphaned file.
HandlerEmit(lg, i, ln) ==
    LET h == lg.handlers[i] IN
    IF h.st = "orphan" THEN lg
    ELSE LET start == IF h.st = "closed" THEN <<>> ELSE lg.logs[h.path].lines
             pos == IF h.st = "closed" THEN 0 ELSE h.pos
         IN [handlers |-> [lg.handlers EXCEPT ![i] =
                              [path |-> h.path, st |-> "open", pos |-> pos + 1]],
             logs |-> [lg.logs EXCEPT ![h.path] =
                              [exists |-> TRUE,
                               lines |-> StreamWrite(start, pos, ln)]]]

RECURSIVE CallHandlers(_, _, _)
\* Logger.callHandlers: every handler of the root logger, in the order added.
CallHandlers(lg, i, ln) ==
    IF i > Len(lg.handlers) THEN lg
    ELSE CallHandlers(HandlerEmit(lg, i, ln), i + 1, ln)

RECURSIVE LogAll(_, _, _, _)
\* self.logger.info / self.logger.error for a sequence of records of run r,
\* the first of which is that run's k-th emission.
LogAll(lg, es, r, k) ==
    IF es = <<>> THEN lg
    ELSE LogAll(CallHandlers(lg, 1, FileLine(Head(es), r, k)), Tail(es), r, k + 1)

\* logging.shutdown(): flushes and closes every handler; the handlers stay in
\* the root logger's list.
Shutdown(lg) ==
    [lg EXCEPT !.handlers =
        [i \in 1..Len(lg.handlers) |-> [lg.handlers[i] EXCEPT !.st = "closed"]]]

\* set_logging_config: remove an existing log of that name, open a new file
\* handler on it and add it to the root logger.  The name depends on the line
\* id and on current_date only, so it is the same for every run of a line.
set_logging_config(lg, line_id) ==
    [handlers |->
        Append([i \in 1..Len(lg.handlers) |->
                   IF lg.handlers[i].path = line_id /\ lg.handlers[i].st = "open"
                   THEN [lg.handlers[i] EXCEPT !.st = "orphan"]
                   ELSE lg.handlers[i]],
               [path |-> line_id, st |-> "open", pos |-> 0]),
     logs |-> [lg.logs EXCEPT ![line_id] = EmptyFile]]

\* os.remove of a log that a handler still holds open (only after a run that
\* ended in an exception, or in a concurrent run).
LogHeldOpen(lg, line_id) ==
    /\ lg.logs[line_id].exists
    /\ \E i \in 1..Len(lg.handlers) :
          lg.handlers[i].path = line_id /\ lg.handlers[i].st = "open"

\* write_first_report
write_first_report(line_id) ==
    <<Entry(INFO, Concat(<< <<"ID Linia : ">>, line_id_2_txt(line_id),
                           <<" |  Data i hora CQ : ">>, current_date >>))>>


\* ------------------------------------------------------------ layer data
\* An optional value (a nullable field): <<>> is NULL, <<v>> is the value v.
Null == <<>>
Some(v) == <<v>>
IsNull(o) == o = <<>>

\* The value of a run of digits (int(...) of a digit token).
NumTokens == {"1", "2", "3", "4"}
NumVal(t) == CASE t = "1" -> 1 [] t = "2" -> 2 [] t = "3" -> 3 [] t = "4" -> 4 [] OTHER -> 0

\* Coordinates are fixed-point numbers, in thousandths of a unit; Tenth is
\* the 0.1 that round(x, 1) rounds to.
Tenth == 100
Abs(x) == IF x < 0 THEN -x ELSE x

\* round(x, 1): the nearest multiple of 0.1, a tie going to the even tenth.
Round1(x) ==
    LET lo == (x \div Tenth) * Tenth
        rest == x - lo
    IN  IF rest * 2 < Tenth THEN lo
        ELSE IF rest * 2 > Tenth THEN lo + Tenth
        ELSE IF (lo \div Tenth) % 2 = 0 THEN lo ELSE lo + Tenth

\* The tolerance 0.01 of check_points_decimals.
Tolerance == 10

\* Generic helpers on sequences.
RECURSIVE FilterFrom(_, _, _)
\* The elements s[j] of s, j >= i, in order, with Test(s[j]).
FilterFrom(s, Test(_), i) ==
    IF i > Len(s) THEN <<>>
    ELSE (IF Test(s[i]) THEN <<s[i]>> ELSE <<>>) \o FilterFrom(s, Test, i + 1)

Filter(s, Test(_)) == FilterFrom(s, Test, 1)
Range(s) == {s[i] : i \in 1..Len(s)}
RECURSIVE MapFrom(_, _, _)
MapFrom(s, F(_), i) == IF i > Len(s) THEN <<>> ELSE <<F(s[i])>> \o MapFrom(s, F, i + 1)

Map(s, F(_)) == MapFrom(s, F, 1)

\* What a validator did: the records it emitted, and whether it ended in an
\* unhandled exception.
Done(out) == [out |-> out, exc |-> FALSE]
Raised(out) == [out |-> out, exc |-> TRUE]
\* a; b
Then(a, b) == IF a.exc THEN a ELSE [out |-> a.out \o b.out, exc |-> b.exc]

RECURSIVE ThenAll(_)
ThenAll(vs) == IF vs = <<>> THEN Done(<<>>) ELSE Then(Head(vs), ThenAll(Tail(vs)))


\* ----------------------------------------------------- derived run data
\* get_ppf_list: the ID_PUNT of the proposal records with PFF = 1.
IsPpfRecord(rec) == rec.PFF = 1
get_ppf_list(p_proposta) ==
    LET ppf_df == Filter(p_proposta, IsPpfRecord)
    IN  [i \in 1..Len(ppf_df) |-> ppf_df[i].ID_PUNT]

InList(x, list) == \E i \in 1..Len(list) : list[i] = x

\* d[key] = value of a python dict, kept as the sequence of its items in
\* insertion order.
DictSet(d, key, value) ==
    IF \E i \in 1..Len(d) : d[i][1] = key
    THEN [i \in 1..Len(d) |-> IF d[i][1] = key THEN <<key, value>> ELSE d[i]]
    ELSE Append(d, <<key, value>>)

DictValues(d) == [i \in 1..Len(d) |-> d[i][2]]

RECURSIVE FoundedLoop(_, _, _)
FoundedLoop(rows, ppf_list, d) ==
    IF rows = <<>> THEN d
    ELSE LET feature == Head(rows) IN
         FoundedLoop(Tail(rows), ppf_list,
                     IF InList(feature.ID_PUNT, ppf_list)
                     THEN DictSet(d, feature.ID_FITA, feature.ID_PUNT)
                     ELSE d)

IsFound(rec) == rec.TROBADA = "1"

\* get_founded_points_dict: False when no record is found, else the dict
\* ID_FITA -> ID_PUNT of the found records that are final-proposed (which
\* may be the empty dict).
get_founded_points_dict(punt_fit, ppf_list) ==
    LET points_founded == Filter(punt_fit, IsFound) IN
    IF points_founded # <<>>
    THEN [isdict |-> TRUE, items |-> FoundedLoop(points_founded, ppf_list, <<>>)]
    ELSE [isdict |-> FALSE, items |-> <<>>]

\* bool(founded_points_dict): False and the empty dict are both falsy.
Truthy(fd) == fd.isdict /\ fd.items # <<>>

\* get_round_point_coordinates: dict ID_PUNT -> (round(x, 1), round(y, 1)).
\* Reading .x of an empty point raises.
RECURSIVE PointCoordsLoop(_, _)
PointCoordsLoop(punts, d) ==
    IF punts = <<>> THEN d
    ELSE PointCoordsLoop(Tail(punts),
            DictSet(d, Head(punts).ID_PUNT,
                    <<Round1(Head(punts).x), Round1(Head(punts).y)>>))

\* The dict of the coordinates as they are, not rounded.
get_point_coordinates(punts) ==
    [exc |-> FALSE,
     items |-> [i \in 1..Len(punts) |-> <<punts[i].ID_PUNT, <<punts[i].x, punts[i].y>>>>]]

get_round_point_coordinates(punts) ==
    IF \E i \in 1..Len(punts) : punts[i].empty
    THEN [exc |-> TRUE, items |-> <<>>]
    ELSE [exc |-> FALSE, items |-> PointCoordsLoop(punts, <<>>)]

RoundXY(v) == <<Round1(v[1]), Round1(v[2])>>

\* get_round_line_coordinates: the rounded vertices of every segment, in
\* order.  t.coords of a multi-part geometry raises NotImplementedError.
get_round_line_coordinates(trams) ==
    IF \E i \in 1..Len(trams) : trams[i].gtype = "MultiLineString"
    THEN [exc |-> TRUE, items |-> <<>>]
    ELSE [exc |-> FALSE,
          items |-> Concat([i \in 1..Len(trams) |-> Map(trams[i].coords, RoundXY)])]

\* ------------------------------------------------------------- validators
\* check_line_id_exists: is the line id among the reference lines / markers.
check_line_id_exists(L, line_id) ==
    LET line_id_in_lin_tram == NumVal(line_id) \in L.tram_line_mem
        line_id_in_fita_g == NumVal(line_id) \in L.fita_mem
    IN  Done(<<
        IF line_id_in_fita_g /\ line_id_in_lin_tram
        THEN Entry(ERROR, <<"L'ID Linia introduït està en fita_mem i tram_linia_mem">>)
        ELSE IF line_id_in_fita_g /\ ~line_id_in_lin_tram
        THEN Entry(ERROR, <<"L'ID Linia introduït està en fita_mem però no en lin_tram_mem">>)
        ELSE IF ~line_id_in_fita_g /\ line_id_in_lin_tram
        THEN Entry(ERROR, <<"L'ID Linia introduït no està en fita_mem però sí en lin_tram_mem">>)
        ELSE Entry(INFO, <<"L'ID Linia no està repetit a fita_mem i lin_tram_mem de SIDM3">>) >>)

\* The fields the line layer must have.
true_fields == <<"ID_LINIA", "ID", "DATA", "COMENTARI", "P1", "P2", "P3", "P4", "PF",
                 "ID_FITA1", "ID_FITA2", "geometry">>

\* As many fields as required ones, whichever they are.
fields_count_ok(lin_tram_fields) == Len(lin_tram_fields) >= Len(true_fields)

\* check_fields_lin_tram_ppta: counts the fields of the layer, a list of
\* distinct names, that are required ones and compares the count with the
\* number of required fields.
fields_lin_tram_ppta_ok(lin_tram_fields) ==
    LET IsTrue(field) == InList(field, true_fields)
        field_match == Len(Filter(lin_tram_fields, IsTrue))
    IN  field_match = Len(true_fields)

check_fields_lin_tram_ppta(lin_tram_fields) ==
    IF fields_lin_tram_ppta_ok(lin_tram_fields)
    THEN Done(<<Entry(INFO, <<"L'estructura de camps de Lin_TramPpta és correcte">>)>>)
    ELSE Done(<<Entry(ERROR, <<"L'estructura de camps de Lin_TramPpta NO és correcte">>)>>)

\* check_fields_content_lint_tram_ppta
check_fields_content_lint_tram_ppta(L, line_id) ==
    LET line_id_error ==
            \E i \in 1..Len(L.lin_tram) : L.lin_tram[i].ID_LINIA # NumVal(line_id)
        id_fita_error ==
            \E i \in 1..Len(L.lin_tram) :
                L.lin_tram[i].ID_FITA1 = "1" \/ L.lin_tram[i].ID_FITA2 = "1"
    IN  Done(
        (IF line_id_error
         THEN <<Entry(ERROR, <<"Existeixen trams de linia amb l'ID_LINIA d'una altra linia">>)>>
         ELSE <<>>) \o
        (IF id_fita_error
         THEN <<Entry(ERROR, <<"El camp ID_FITA d'algun dels trams de la linia no és vàlid">>)>>
         ELSE <<>>) \o
        (IF ~line_id_error /\ ~id_fita_error
         THEN <<Entry(INFO, <<"Els camps de Lin_TramPpta estan correctament emplenats">>)>>
         ELSE <<>>))

IsEmptyGeom(f) == f.empty
IsMultiPart(f) == f.gtype = "MultiLineString"
\* is_valid of a geometry.  A LineString of two or more distinct vertices is
\* valid whether or not it is simple (f.simple: it neither touches nor crosses
\* itself).
NotValidGeom(f) == ~f.valid

EmptyTramMsg(f) == Entry(ERROR, Concat(<< <<"      El tram ">>, f.ID, <<" està buit">> >>))
RingTramMsg(f) == Entry(ERROR, Concat(<< <<"      El tram ">>, f.ID, <<" té un anell interior">> >>))
MultiPartMsg(f) ==
    Entry(ERROR, Concat(<< <<"      El tram ">>, f.ID, <<" és multi">>, <<DASH>>,
                           <<"part i té ">>, <<"<GeometrySequence>">>, <<" parts">> >>))

\* check_lin_tram_geometry: the ring test reads is_empty, as the empty test.
check_lin_tram_geometry(L) ==
    LET empty_features == Filter(L.lin_tram, IsEmptyGeom)
        ring_features == Filter(L.lin_tram, IsEmptyGeom)
        multi == Filter(L.lin_tram, IsMultiPart)
    IN  Done(Map(empty_features, EmptyTramMsg) \o Map(ring_features, RingTramMsg)
             \o Map(multi, MultiPartMsg) \o
             (IF empty_features = <<>> /\ ring_features = <<>> /\ multi = <<>>
              THEN <<Entry(INFO, <<"      No s'ha detectat cap error de geometria a Lin_TramPpta">>)>>
              ELSE <<>>))

EmptyPointMsg(f) ==
    Entry(ERROR, Concat(<< <<"      El punt ">>, f.ID_PUNT, <<" està buit">> >>))
InvalidPointMsg(f) ==
    Entry(ERROR, Concat(<< <<"      El punt ">>, f.ID_PUNT, <<" no té una geometria vàlida">> >>))

\* check_points_geometry
check_points_geometry(L) ==
    LET empty_features == Filter(L.punt, IsEmptyGeom)
        invalid_features == Filter(L.punt, NotValidGeom)
    IN  Done(Map(empty_features, EmptyPointMsg) \o Map(invalid_features, InvalidPointMsg) \o
             (IF empty_features = <<>> /\ invalid_features = <<>>
              THEN <<Entry(INFO, <<"      No s'ha detectat cap error de geometria a la capa Punt">>)>>
              ELSE <<>>))

\* check_layers_geometry
check_layers_geometry(L) ==
    ThenAll(<< Done(<<Entry(INFO, <<"Comprovació de les geometries...">>),
                      Entry(INFO, <<"Lin_Tram_Proposta :">>)>>),
               check_lin_tram_geometry(L),
               Done(<<Entry(INFO, <<"Punt :">>)>>),
               check_points_geometry(L) >>)

RECURSIVE VertexLoop(_, _)
VertexLoop(trams, out) ==
    IF trams = <<>> THEN Done(out)
    ELSE LET feature == Head(trams) IN
         IF feature.gtype = "MultiLineString" THEN Raised(out)
         ELSE VertexLoop(Tail(trams),
                Append(out, Entry(INFO,
                    Concat(<< <<"      Tram ID : ">>, feature.ID, <<"  |  Nº vèrtex : ">>,
                              <<ToString(Len(feature.coords))>> >>))))

\* info_vertexs_line: len(geometry.coords) raises for a multi-part segment.
info_vertexs_line(L) ==
    VertexLoop(L.lin_tram, <<Entry(INFO, <<"Vèrtexs de la linia :">>)>>)

\* Both coordinates off by more than the tolerance.
BadlyRoundedBoth(feature) ==
    /\ Abs(feature.x - Round1(feature.x)) > Tolerance
    /\ Abs(feature.y - Round1(feature.y)) > Tolerance

\* dif_x > 0.01 or dif_y > 0.01
BadlyRounded(feature) ==
    LET dif_x == Abs(feature.x - Round1(feature.x))
        dif_y == Abs(feature.y - Round1(feature.y))
    IN  dif_x > Tolerance \/ dif_y > Tolerance

DecimalsMsg(feature) ==
    Entry(ERROR, Concat(<< <<"La fita ">>, SplitLast(feature.ETIQUETA), <<"  |  ID_PUNT : ">>,
                           SplitLast(feature.ID_PUNT),
                           <<" no està correctament decimetritzada">> >>))

RECURSIVE DecimalsLoop(_, _, _)
DecimalsLoop(punts, ppf_list, out) ==
    IF punts = <<>> THEN out
    ELSE LET feature == Head(punts) IN
         DecimalsLoop(Tail(punts), ppf_list,
            IF InList(feature.ID_PUNT, ppf_list) /\ BadlyRounded(feature)
            THEN Append(out, DecimalsMsg(feature))
            ELSE out)

DecimalsOkMsg == Entry(INFO, <<"Les fites estan correctament decimetritzades">>)

\* check_points_decimals
check_points_decimals(punts, ppf_list) ==
    LET errors == DecimalsLoop(punts, ppf_list, <<>>)
        decim_valid == errors = <<>>
    IN  Done(errors \o (IF decim_valid THEN <<DecimalsOkMsg>> ELSE <<>>))

IsNotFinal(rec) == rec.PFF = 0
IsRealPpf(rec) == rec.PFF = 1 /\ rec.ESFITA = Some(1)
IsAuxPpf(rec) == rec.PFF = 1 /\ rec.ESFITA = Some(0)

\* count_points
count_points(p_proposta) ==
    Done(<< Entry(INFO, <<"      Fites PPF reals: ", ToString(Len(Filter(p_proposta, IsRealPpf)))>>),
            Entry(INFO, <<"      Fites PPF auxiliars: ", ToString(Len(Filter(p_proposta, IsAuxPpf)))>>),
            Entry(INFO, <<"      Fites no finals: ", ToString(Len(Filter(p_proposta, IsNotFinal)))>> ) >>)

OrdpfIsNull(rec) == IsNull(rec.ORDPF)
OrdpfMsg(feature) ==
    Entry(ERROR, Concat(<< <<"      El camp ORDPF del punt ">>, SplitLast(feature.ID_PUNT),
                           <<" a la taula PUNT_FIT és nul.">> >>))

\* check_ordpf: one error for every record whose ORDPF is null.
check_ordpf(p_proposta) == Map(Filter(p_proposta, OrdpfIsNull), OrdpfMsg)

\* Every final-proposed record with ORDPF = 0, whatever its ESFITA.
IsFinalOrdpfZero(rec) == rec.PFF = 1 /\ rec.ORDPF = Some(0)

\* PFF == 1 & ORDPF == 0 & ESFITA != 0 (a null ESFITA is != 0 too)
IsBadAuxiliary(rec) == rec.PFF = 1 /\ rec.ORDPF = Some(0) /\ rec.ESFITA # Some(0)

BadAuxiliaryMsg(feature) ==
    Entry(ERROR, Concat(<< <<"      El punt amb ID PUNT : ">>, SplitLast(feature.ID_PUNT),
                           <<" està mal indicat a P_Proposta: sembla que es tracta ">>,
                           <<"d'una fita auxiliar indicada com a fita real">> >>))

\* check_real_points: one error for every final-proposed record with
\* ORDPF = 0 whose ESFITA is not 0.
check_real_points(p_proposta) == Map(Filter(p_proposta, IsBadAuxiliary), BadAuxiliaryMsg)

PropostaOkMsg == Entry(INFO, <<"Tots els registre de la taula P_Proposta són vàlids.">>)

\* info_p_proposta
info_p_proposta(p_proposta) ==
    LET ordpf_errors == check_ordpf(p_proposta)
        ordpf_valid == ordpf_errors = <<>>
        real_errors == check_real_points(p_proposta)
        real_points_valid == real_errors = <<>>
    IN  ThenAll(<< Done(<<Entry(INFO, <<"Informació de les fites :">>)>>),
                   count_points(p_proposta),
                   Done(ordpf_errors),
                   Done(real_errors),
                   Done(IF ordpf_valid /\ real_points_valid THEN <<PropostaOkMsg>> ELSE <<>>) >>)

HasPhoto(f) == ~IsNull(f.FOTOS)

RECURSIVE ItemsWhere(_, _)
\* The items (key, value) of dict d whose value is not in list.
ItemsWhere(d, list) ==
    IF d = <<>> THEN <<>>
    ELSE (IF InList(Head(d)[2], list) THEN <<>> ELSE <<Head(d)>>) \o ItemsWhere(Tail(d), list)

NoPhotoMsg(item) ==
    Entry(ERROR, Concat(<< <<"      La fita ">>, SplitLast(item[1]), <<"  |  ID PUNT : ">>,
                           SplitLast(item[2]),
                           <<" és trobada però no té cap fotografia indicada.">> >>))

\* check_photo_exists
check_photo_exists(L) ==
    LET points_with_photo == Filter(L.punt, HasPhoto)
        InPpf(f) == InList(f.ID_PUNT, L.ppf_list)
        ppf_with_photo == Filter(points_with_photo, InPpf)
        ppf_with_photo_list == [i \in 1..Len(ppf_with_photo) |-> ppf_with_photo[i].ID_PUNT]
        founded_points_no_photo == ItemsWhere(L.founded_points_dict.items, ppf_with_photo_list)
    IN  IF founded_points_no_photo = <<>>
        THEN Done(<<Entry(INFO, <<"Totes les fites trobades tenen fotografia.">>)>>)
        ELSE Done(Map(founded_points_no_photo, NoPhotoMsg))

PhotoMissingMsg(photo_filename) ==
    Entry(ERROR, Concat(<< <<"La fotografia ">>, photo_filename,
                           <<" no està a la carpeta de Fotografies.">> >>))

\* check_photo_name: L.photos are the .jpg/.JPG files of the photo folder.
check_photo_name(L) ==
    LET points_with_photo == Filter(L.punt, HasPhoto)
        InPpf(f) == InList(f.ID_PUNT, L.ppf_list)
        founded == Filter(points_with_photo, InPpf)
        founded_points_photos == [i \in 1..Len(founded) |-> founded[i].FOTOS[1]]
        Missing(photo) == photo \notin L.photos
        missing == Filter(founded_points_photos, Missing)
    IN  Done(Map(missing, PhotoMissingMsg) \o
             (IF missing = <<>>
              THEN <<Entry(INFO, <<"Totes les fotografies informades a la capa Punt estan a la carpeta de Fotografies.">>)>>
              ELSE <<>>))

RECURSIVE CotaLoop(_, _, _)
\* The first loop of check_cota_fita; geometry.z raises for a point without z.
CotaLoop(punts, ppf_list, d) ==
    IF punts = <<>> THEN [exc |-> FALSE, items |-> d]
    ELSE LET feature == Head(punts) IN
         IF IsNull(feature.z) THEN [exc |-> TRUE, items |-> d]
         ELSE CotaLoop(Tail(punts), ppf_list,
                 IF feature.z[1] > 0 /\ InList(feature.ID_PUNT, ppf_list)
                 THEN DictSet(d, feature.ETIQUETA, feature.ID_PUNT)
                 ELSE d)

CotaMsg(item) ==
    Entry(ERROR, Concat(<< <<"La F ">>, SplitLast(item[1]), <<"  |  ID PUNT : ">>,
                           SplitLast(item[2]),
                           <<" té coordenada Z però no és fita trobada.">> >>))

\* check_cota_fita
check_cota_fita(L) ==
    LET ppf_z_dict == CotaLoop(L.punt, L.ppf_list, <<>>) IN
    IF ppf_z_dict.exc THEN Raised(<<>>)
    ELSE LET bad == ItemsWhere(ppf_z_dict.items, DictValues(L.founded_points_dict.items))
         IN  Done(Map(bad, CotaMsg) \o
                  (IF bad = <<>>
                   THEN <<Entry(INFO, <<"Totes les fites amb coordenada Z són trobades">>)>>
                   ELSE <<>>))

\* check_found_points
check_found_points(L) ==
    ThenAll(<<check_photo_exists(L), check_photo_name(L), check_cota_fita(L)>>)

\* get(), lines 141-142: check_found_points runs if founded_points_dict is
\* truthy.
found_points_step(L) ==
    IF Truthy(L.founded_points_dict) THEN check_found_points(L) ELSE Done(<<>>)

\* re.search(r'\d+', label): the first run of digits of the label, if any.
HasDigits(label) == \E i \in 1..Len(label) : label[i] \in NumTokens
FirstDigits(label) ==
    LET i == CHOOSE j \in 1..Len(label) :
                 label[j] \in NumTokens /\ \A k \in 1..(j - 1) : label[k] \notin NumTokens
    IN  NumVal(label[i])

RECURSIVE InsertSorted(_, _)
InsertSorted(sorted, f) ==
    IF sorted = <<>> THEN <<f>>
    ELSE IF f.sorting < Head(sorted).sorting THEN <<f>> \o sorted
    ELSE <<Head(sorted)>> \o InsertSorted(Tail(sorted), f)

RECURSIVE SortBySorting(_, _)
\* sort_values(by=['sorting']), rows of equal key kept in their order.
SortBySorting(rows, acc) ==
    IF rows = <<>> THEN acc ELSE SortBySorting(Tail(rows), InsertSorted(acc, Head(rows)))

\* bool(value) of a nullable text: None and '' are falsy.
TruthyText(o) == ~IsNull(o) /\ o[1] # <<>>
ContacteInformed(f) == ~IsNull(f.CONTACTE)

\* check_3termes
check_3termes(L) ==
    IF \E i \in 1..Len(L.punt) : ~HasDigits(L.punt[i].ETIQUETA) THEN Raised(<<>>)
    ELSE
    LET withkey == [i \in 1..Len(L.punt) |->
                       [f |-> L.punt[i], sorting |-> FirstDigits(L.punt[i].ETIQUETA)]]
        sorted_points_df == SortBySorting(withkey, <<>>)
        InPpf(row) == InList(row.f.ID_PUNT, L.ppf_list)
        ppf_sorted == Filter(sorted_points_df, InPpf)
    IN  IF ppf_sorted = <<>> THEN Raised(<<>>)
        ELSE
        LET first_point == ppf_sorted[1].f
            last_point == ppf_sorted[Len(ppf_sorted)].f
            n_informed_3t_points == Len(Filter(L.punt, ContacteInformed))
        IN  Done(<< IF TruthyText(first_point.CONTACTE) /\ TruthyText(last_point.CONTACTE)
                    THEN Entry(INFO, <<"Les fites 3T tenen informat el camp CONTACTE.">>)
                    ELSE Entry(ERROR, <<"Hi ha fites 3T que no tenen informat el camp CONTACTE.">>),
                    Entry(INFO, <<"Hi ha un total de ", ToString(n_informed_3t_points),
                                  " fites amb el camp CONTACTE informat.">>) >>)

\* check_3termes, lines 654-661: sorted_points_df_temp is the marker-point
\* layer itself, not a copy, and the sorting column is added to it once the
\* loop over the labels is through.  columns: the columns of the layer.
columns_after_3termes(L, columns) ==
    IF \E i \in 1..Len(L.punt) : ~HasDigits(L.punt[i].ETIQUETA) THEN columns
    ELSE IF InList("sorting", columns) THEN columns
    ELSE Append(columns, "sorting")

PropostaMissingMsg(point_id) ==
    Entry(ERROR, Concat(<< <<"El registre amb ID PUNT : ">>, point_id,
                           <<" de la taula P_PROPOSTA no està a la capa Punt.">> >>))
PuntFitMissingMsg(point_id) ==
    Entry(ERROR, Concat(<< <<"El registre amb ID PUNT : ">>, point_id,
                           <<" de la taula PUNT_FIT no està a la capa Punt.">> >>))

RECURSIVE PropostaRelLoop(_, _, _, _)
\* The first loop of check_relation_points_tables.  st.point_id is the local
\* variable point_id after the loop (st.bound: whether it was ever assigned).
PropostaRelLoop(rows, points_id_list, out, st) ==
    IF rows = <<>> THEN [out |-> out, point_id |-> st.point_id, bound |-> st.bound]
    ELSE LET point_id == Head(rows).ID_PUNT IN
         IF ~InList(point_id, points_id_list)
         THEN PropostaRelLoop(Tail(rows), points_id_list,
                              Append(out, PropostaMissingMsg(SplitLast(point_id))),
                              [point_id |-> SplitLast(point_id), bound |-> TRUE])
         ELSE PropostaRelLoop(Tail(rows), points_id_list, out,
                              [point_id |-> point_id, bound |-> TRUE])

RECURSIVE PuntFitRelLoop(_, _, _, _)
\* The second loop: the message is built from point_id, the variable of the
\* first loop, not from the record's own point_id_.
PuntFitRelLoop(rows, points_id_list, out, st) ==
    IF rows = <<>> THEN Done(out)
    ELSE LET point_id_ == Head(rows).ID_PUNT IN
         IF ~InList(point_id_, points_id_list)
         THEN IF ~st.bound THEN Raised(out)
              ELSE PuntFitRelLoop(Tail(rows), points_id_list,
                                  Append(out, PuntFitMissingMsg(SplitLast(st.point_id))), st)
         ELSE PuntFitRelLoop(Tail(rows), points_id_list, out, st)

\* check_relation_points_tables
check_relation_points_tables(L) ==
    LET points_id_list == [i \in 1..Len(L.punt) |-> L.punt[i].ID_PUNT]
        first == PropostaRelLoop(L.p_proposta, points_id_list, <<>>,
                                 [point_id |-> <<>>, bound |-> FALSE])
        second == PuntFitRelLoop(L.punt_fit, points_id_list, <<>>, first)
    IN  ThenAll(<<
          Done(<<Entry(INFO, <<"Comprovant correspondència entre les taules i la capa Punt...">>)>>),
          Done(first.out),
          Done(IF first.out = <<>>
               THEN <<Entry(INFO, <<"      Correspondència OK entre els punts de P_PROPOSTA i Punt.">>)>>
               ELSE <<>>),
          second,
          Done(IF second.out = <<>>
               THEN <<Entry(INFO, <<"      Correspondència OK entre els punts de PUNT_FIT i Punt.">>)>>
               ELSE <<>>) >>)

SelfTouchMsg(f) ==
    Entry(ERROR, Concat(<< <<"      El tram ">>, f.ID,
                           <<" de la línia s'intersecta o toca a sí mateix.">> >>))
CrossMsg(tram, tram_) ==
    Entry(ERROR, Concat(<< <<"      El tram ">>, tram.ID, <<" de la línia talla el tram ">>,
                           tram_.ID, <<" de la mateixa línia.">> >>))

\* tram.geometry.crosses(tram_.geometry): geometries are named by tram.g, and
\* L.crosses holds the pairs {g, g'} of geometries that cross.
Crosses(L, tram, tram_) == {tram.g, tram_.g} \in L.crosses

\* check_line_crosses_itself
check_line_crosses_itself(L) ==
    LET invalid_features == Filter(L.lin_tram, NotValidGeom)
        PairMsgs(tram) ==
            LET Other(t) == t.g # tram.g
                line == Filter(L.lin_tram, Other)
                Hit(t) == Crosses(L, tram, t)
                hits == Filter(line, Hit)
            IN  [j \in 1..Len(hits) |-> CrossMsg(tram, hits[j])]
        cross_errors == Concat(Map(L.lin_tram, PairMsgs))
        valid == invalid_features = <<>> /\ cross_errors = <<>>
    IN  Done(Map(invalid_features, SelfTouchMsg) \o cross_errors \o
             (IF valid
              THEN <<Entry(INFO, <<"      Els trams de la linia no s'intersecten o toquen a sí mateixos.">>)>>
              ELSE <<>>))

RECURSIVE Repeat(_, _)
Repeat(x, n) == IF n = 0 THEN <<>> ELSE <<x>> \o Repeat(x, n - 1)

\* gpd.sjoin(lin_tram, tram_line_mem, op='contains'): one row for every pair
\* (segment, reference line the segment contains); tram.db is the number of
\* reference lines the segment contains.
sjoin_contains(L) == Concat([i \in 1..Len(L.lin_tram) |-> Repeat(L.lin_tram[i], L.lin_tram[i].db)])

IntersectsDbMsg(feature) ==
    Entry(ERROR, Concat(<< <<"      El tram ">>, feature.ID,
                           <<" de la línia talla algun tram de la base de dades.">> >>))
OverlapsDbMsg(feature) ==
    Entry(ERROR, Concat(<< <<"      El tram ">>, feature.ID,
                           <<" de la línia es sobreposa a algun tram de la base de dades.">> >>))

\* check_line_intersects_db
check_line_intersects_db(L) ==
    LET features_intersects_db == sjoin_contains(L) IN
    IF features_intersects_db # <<>>
    THEN Done(Map(features_intersects_db, IntersectsDbMsg))
    ELSE Done(<<Entry(INFO, <<"      Els trams de la linia no intersecten cap tram de la base de dades.">>)>>)

\* One error for every segment that contains a reference line, however many
\* it contains.
overlaps_db_by_segment(L) ==
    LET InDb(feature) == feature.db > 0
        features_overlaps_db == Filter(L.lin_tram, InDb)
    IN  IF features_overlaps_db # <<>>
        THEN Done(Map(features_overlaps_db, OverlapsDbMsg))
        ELSE Done(<<Entry(INFO, <<"      Els trams de la linia no es sobreposen a cap tram de la base de dades.">>)>>)

\* check_line_overlaps_db
check_line_overlaps_db(L) ==
    LET features_overlaps_db == sjoin_contains(L) IN
    IF features_overlaps_db # <<>>
    THEN Done(Map(features_overlaps_db, OverlapsDbMsg))
    ELSE Done(<<Entry(INFO, <<"      Els trams de la linia no es sobreposen a cap tram de la base de dades.">>)>>)

EndpointMsg(tram_id) ==
    Entry(ERROR, Concat(<< <<"      Algun dels punts finals del tram ">>, tram_id,
                           <<" no coincideixen amb una fita de la capa Punt.">> >>))

RECURSIVE EndpointLoop(_, _, _)
\* The loop of check_endpoint_covered_point.  coords[0] raises for a segment
\* without vertices and for a multi-part one.  (first_endpoint or
\* last_endpoint) is first_endpoint, a non-empty tuple being truthy.
EndpointLoop(trams, values, out) ==
    IF trams = <<>> THEN Done(out)
    ELSE LET feature == Head(trams) IN
         IF feature.gtype = "MultiLineString" \/ feature.coords = <<>> THEN Raised(out)
         ELSE LET first_endpoint == RoundXY(feature.coords[1])
                  last_endpoint == RoundXY(feature.coords[Len(feature.coords)])
              IN  EndpointLoop(Tail(trams), values,
                      IF ~InList(first_endpoint, values)
                      THEN Append(out, EndpointMsg(feature.ID)) ELSE out)

\* check_endpoint_covered_point
check_endpoint_covered_point(L) ==
    LET r == EndpointLoop(L.lin_tram, DictValues(L.points_coords_dict), <<>>) IN
    Then(r, Done(IF r.out = <<>>
                 THEN <<Entry(INFO, <<"      Tots els punts finals dels trams de la linia coincideixen amb una fita de la capa Punt.">>)>>
                 ELSE <<>>))

AuxiliaryMsg(n_fita, point_id) ==
    Entry(INFO, Concat(<< <<"      La fita F ">>, n_fita, <<" | ID PUNT ">>, point_id,
                          <<" no està a sobre de la linia però és auxiliar.">> >>))
NotAuxiliaryMsg(n_fita, point_id) ==
    Entry(ERROR, Concat(<< <<"      La fita F ">>, n_fita, <<" | ID PUNT ">>, point_id,
                           <<" no està a sobre de la linia i NO és auxiliar.">> >>))

RECURSIVE AuxiliaryLoop(_, _, _)
\* The loop of check_auxiliary_point.  values[0] raises when the found-marker
\* table has no record of the point.
AuxiliaryLoop(items, L, out) ==
    IF items = <<>> THEN Done(out)
    ELSE LET point_id == Head(items)[1]
             point_coords == Head(items)[2]
         IN  IF ~InList(point_coords, L.line_coords_list) /\ InList(point_id, L.ppf_list)
             THEN LET Same(rec) == rec.ID_PUNT = point_id
                      point == Filter(L.punt_fit, Same)
                  IN  IF point = <<>> THEN Raised(out)
                      ELSE AuxiliaryLoop(Tail(items), L, Append(out,
                             IF point[1].AUX = "1"
                             THEN AuxiliaryMsg(point[1].ID_FITA, SplitLast(point_id))
                             ELSE NotAuxiliaryMsg(point[1].ID_FITA, SplitLast(point_id))))
             ELSE AuxiliaryLoop(Tail(items), L, out)

\* check_auxiliary_point
check_auxiliary_point(L) == AuxiliaryLoop(L.points_coords_dict, L, <<>>)

\* check_topology
check_topology(L) ==
    ThenAll(<< Done(<<Entry(INFO, <<"Iniciant controls topològics...">>)>>),
               check_line_crosses_itself(L),
               check_line_intersects_db(L),
               check_line_overlaps_db(L),
               check_endpoint_covered_point(L),
               check_auxiliary_point(L) >>)

\* The validators get() runs once the schema gate is passed (lines 135-150),
\* in their fixed order; an exception in one of them ends the run.
RECURSIVE TagAll(_, _)
TagAll(es, by) ==
    IF es = <<>> THEN <<>>
    ELSE <<[level |-> Head(es).level, msg |-> Head(es).msg, by |-> by]>> \o TagAll(Tail(es), by)

Tagged(res, by) == [out |-> TagAll(res.out, by), exc |-> res.exc]

RunValidators(L) ==
    ThenAll(<< Tagged(check_layers_geometry(L), "check_layers_geometry"),
               Tagged(info_vertexs_line(L), "info_vertexs_line"),
               Tagged(check_points_decimals(L.punt, L.ppf_list), "check_points_decimals"),
               Tagged(info_p_proposta(L.p_proposta), "info_p_proposta"),
               Tagged(found_points_step(L), "check_found_points"),
               Tagged(check_3termes(L), "check_3termes"),
               Tagged(check_relation_points_tables(L), "check_relation_points_tables"),
               Tagged(check_topology(L), "check_topology") >>)

\* The names of the attribute and topology validators, as tags of the
\* records they emit.
ValidatorTags == {"check_line_id_exists", "check_layers_geometry", "info_vertexs_line",
                  "check_points_decimals", "info_p_proposta", "check_found_points",
                  "check_3termes", "check_relation_points_tables", "check_topology"}

\* --------------------------------------------------- the line's folder
\* qa_line/config.py: the layers and tables of a line, the sub-directories
\* of DocDelim.
SHAPES_LIST == <<"Lin_TramPpta", "Punt">>
TABLE_LIST == <<"P_Proposta", "PUNT_FIT">>
TEMP_ENTITIES == <<"Lin_TramPpta", "Punt", "P_Proposta", "PUNT_FIT">>
SUB_DIR_LIST == <<"Cartografia", "Taules", "Fotografies">>

Pid(n) == <<"P", DASH, n>>
Label(n) == <<"F", DASH, n>>

NoZ == Null

BaseTram(lid) ==
    [ID |-> <<"T1">>, ID_LINIA |-> NumVal(lid), ID_FITA1 |-> "F1", ID_FITA2 |-> "F2",
     gtype |-> "LineString", empty |-> FALSE, valid |-> TRUE, simple |-> TRUE,
     ring |-> FALSE, g |-> 1, db |-> 0,
     coords |-> << <<0, 0>>, <<1000, 0>> >>]

BasePunt(n, x, y) ==
    [ID_PUNT |-> Pid(n), ETIQUETA |-> Label(n), x |-> x, y |-> y, z |-> NoZ,
     FOTOS |-> Null, CONTACTE |-> Some(<<"3T">>), empty |-> FALSE, valid |-> TRUE]

BaseProposta(n, ordpf) ==
    [ID_PUNT |-> Pid(n), PFF |-> 1, ESFITA |-> Some(1), ORDPF |-> Some(ordpf)]

BaseFit(n) ==
    [ID_PUNT |-> Pid(n), ID_FITA |-> <<n>>, TROBADA |-> "0", AUX |-> "0"]

\* Scenario A of the specification: a correct line, all markers on the line,
\* ORDPF populated, no found marker.
BaseData(lid) ==
    [fields |-> true_fields,
     lin_tram |-> <<BaseTram(lid)>>,
     crosses |-> {},
     punt |-> <<BasePunt("1", 0, 0), BasePunt("2", 1000, 0)>>,
     p_proposta |-> <<BaseProposta("1", 1), BaseProposta("2", 2)>>,
     punt_fit |-> <<BaseFit("1"), BaseFit("2")>>,
     photos |-> {}]

\* The contents a line's folder can have.
Variants == {"clean", "decimals", "no_PF", "no_ppf", "multipart", "found",
             "no_digit", "off_line", "proposta"}

Dataset(v, lid) ==
    LET b == BaseData(lid) IN
    CASE v = "clean" -> b
      [] v = "decimals" ->
           \* scenario B: one final-proposed marker at x = 123.456
           [b EXCEPT !.punt = <<BasePunt("1", 123456, 0), BasePunt("2", 1000, 0)>>]
      [] v = "no_PF" ->
           \* scenario C: the line layer has no field PF (and an extra one)
           [b EXCEPT !.fields = LET NotPF(field) == field # "PF"
                                IN  Append(Filter(true_fields, NotPF), "OBS")]
      [] v = "no_ppf" ->
           [b EXCEPT !.p_proposta = <<[BaseProposta("1", 1) EXCEPT !.PFF = 0],
                                      [BaseProposta("2", 2) EXCEPT !.PFF = 0]>>]
      [] v = "multipart" ->
           [b EXCEPT !.lin_tram = <<[BaseTram(lid) EXCEPT !.gtype = "MultiLineString"]>>]
      [] v = "found" ->
           \* marker 1 found, with a photo whose file name holds a '-'
           [b EXCEPT !.punt = <<[BasePunt("1", 0, 0) EXCEPT
                                    !.z = Some(5), !.FOTOS = Some(<<"F", DASH, "1.jpg">>)],
                                [BasePunt("2", 1000, 0) EXCEPT !.z = Some(7)]>>,
                     !.punt_fit = <<[BaseFit("1") EXCEPT !.TROBADA = "1"], BaseFit("2")>>,
                     !.photos = {<<"F", DASH, "1.jpg">>}]
      [] v = "no_digit" ->
           [b EXCEPT !.punt = <<[BasePunt("1", 0, 0) EXCEPT !.ETIQUETA = <<"F">>],
                                BasePunt("2", 1000, 0)>>]
      [] v = "off_line" ->
           \* marker 2 off the line, without a record in the found-marker table
           [b EXCEPT !.punt = <<BasePunt("1", 0, 0), BasePunt("2", 1000, 500)>>,
                     !.punt_fit = <<BaseFit("1")>>]
      [] v = "proposta" ->
           [b EXCEPT !.p_proposta =
                <<[BaseProposta("1", 0) EXCEPT !.ORDPF = Null],
                  [BaseProposta("2", 0) EXCEPT !.ORDPF = Some(0)]>>]

\* ------------------------------------------------------------------ state
VARIABLES
    lg,             \* the root logger's handlers and the log files
    response_data,  \* the class attribute CheckQualityLine.response_data
    gpkg,           \* the temporary layers of WORK_GPKG
    ref,            \* the reference layers tram_linia_mem / fita_mem of WORK_GPKG
    run,            \* per request: the view instance and what it did
    call,           \* a validator called on its own: its arguments
    result          \* ... and what each of its executions emitted

vars == <<lg, response_data, gpkg, ref, run, call, result>>
\* The validator called on its own is no part of a request.
alone == <<call, result>>
NoCall == <<>>

Absent == [present |-> FALSE, v |-> "", lid |-> "", by |-> 0]
Layer(v, lid, by) == [present |-> TRUE, v |-> v, lid |-> lid, by |-> by]
TempLayers == Range(TEMP_ENTITIES)

\* The reference data the database can hold: the id_linia of its lines and
\* of its markers.  In the first, line 1 is in neither and line 2 among the
\* markers only; in the second, line 1 is in both and line 2 among the lines
\* only.
RefChoices == {[tram |-> {}, fita |-> {2}], [tram |-> {1, 2}, fita |-> {1}]}

NoResponse == [keys |-> {}, result |-> "", message |-> <<>>, reports |-> <<>>]

IdleRun ==
    [pc |-> "idle", line_id |-> NoId, gate |-> "", missing |-> {}, folder |-> "",
     layers |-> [l \in TempLayers |-> Absent], emitted |-> <<>>, resp |-> NoResponse]

\* The process after start-up: the class is defined, no request was served.
Started ==
    /\ lg = [handlers |-> <<>>, logs |-> [p \in LineIds |-> NoFile]]
    /\ response_data = NoResponse
    /\ gpkg = [l \in TempLayers |-> Absent]
    /\ run = [r \in Runs |-> IdleRun]

Init ==
    /\ Started
    /\ ref \in RefChoices
    /\ call = NoCall
    /\ result = <<>>

Active(r) == run[r].pc \notin {"idle", "returned", "exception", "gone"}

Plain(es, by) == Tagged(Done(es), by).out

\* create_error_response: logs the message, sets result and message in the
\* shared dict, shuts logging down and hands the dict to the template.
\* rec is the view instance as the step that calls it leaves it.
error_response_of(r, rec, before, message, gate) ==
    LET es == before \o Plain(<<Entry(ERROR, message)>>, "create_error_response")
        rd == [response_data EXCEPT !.keys = @ \cup {"result", "message"},
                                    !.result = "error", !.message = message]
    IN  /\ lg' = Shutdown(LogAll(lg, es, r, Len(run[r].emitted) + 1))
        /\ response_data' = rd
        /\ run' = [run EXCEPT ![r] = [rec EXCEPT !.pc = "returned", !.gate = gate,
                                                 !.emitted = @ \o es, !.resp = rd]]

create_error_response(r, before, message, gate) ==
    error_response_of(r, run[r], before, message, gate)

\* A step of get() that logs es and goes on at pc.
Step(r, es, pc) ==
    /\ lg' = LogAll(lg, es, r, Len(run[r].emitted) + 1)
    /\ run' = [run EXCEPT ![r].pc = pc, ![r].emitted = @ \o es]

\* A step that ends in an unhandled exception after logging es: no response,
\* and logging is not shut down.
Throw(r, es) == Step(r, es, "exception")

\* The view instance of a request that was answered (or that ended in an
\* exception) is dropped; nothing of it is left when a later request comes.
Forget(rs) ==
    [q \in Runs |-> IF rs[q].pc \in {"returned", "exception"}
                    THEN [IdleRun EXCEPT !.pc = "gone"] ELSE rs[q]]

\* get(), lines 72-77: the line id of the request, set_up.  The directory of
\* the log may not exist, and an existing log may be held open (os.remove
\* then fails on Windows and unlinks the file elsewhere).
Request(r, id, log_dir_ok, remove_ok) ==
    /\ run[r].pc = "idle"
    /\ \A q \in Runs : q < r => run[q].pc # "idle"
    /\ UNCHANGED <<gpkg, ref, alone>>
    /\ IF id = NoId
       THEN LET message == <<"No s'ha introduït cap ID Linia.">>
                es == Plain(<<Entry(ERROR, message)>>, "create_error_response")
                rd == [response_data EXCEPT !.keys = @ \cup {"result", "message"},
                                            !.result = "error", !.message = message]
            IN  /\ lg' = Shutdown(LogAll(lg, es, r, 1))
                /\ response_data' = rd
                /\ run' = [Forget(run) EXCEPT ![r].pc = "returned", ![r].gate = "no_id",
                                              ![r].emitted = es, ![r].resp = rd]
       ELSE IF ~log_dir_ok \/ (LogHeldOpen(lg, id) /\ ~remove_ok)
       THEN /\ run' = [Forget(run) EXCEPT ![r].pc = "exception", ![r].line_id = id]
            /\ UNCHANGED <<lg, response_data>>
       ELSE LET es == Plain(write_first_report(id), "write_first_report") IN
            /\ lg' = LogAll(set_logging_config(lg, id), es, r, 1)
            /\ run' = [Forget(run) EXCEPT ![r].pc = "line_dir", ![r].line_id = id,
                                          ![r].emitted = es]
            /\ UNCHANGED response_data

\* check_line_dir_exists
CheckLineDir(r, exists) ==
    /\ run[r].pc = "line_dir"
    /\ UNCHANGED <<gpkg, ref, alone>>
    /\ IF exists
       THEN Step(r, <<>>, "directories") /\ UNCHANGED response_data
       ELSE create_error_response(r, <<>>,
              <<"No existeix la carpeta de la linia ", run[r].line_id,
                " al directori de càrrega.">>, "line_dir")

\* check_directories: the entries it logs
check_directories(doc_delim, sub_dirs) ==
    IF doc_delim
    THEN LET Missing(d) == d \notin sub_dirs
             NoSubDir(d) == Entry(ERROR, <<"No existeix el subdirectori ", d>>)
             errors == Map(Filter(SUB_DIR_LIST, Missing), NoSubDir)
         IN  IF errors = <<>> THEN <<Entry(INFO, <<"Estructura de directoris OK">>)>> ELSE errors
    ELSE <<Entry(ERROR, <<"No existeix DocDelim dins el directori de la linia">>)>>

tree_valid(doc_delim, sub_dirs) == doc_delim /\ Range(SUB_DIR_LIST) \subseteq sub_dirs

\* get(), lines 85-92
CheckDirectories(r, doc_delim, sub_dirs) ==
    /\ run[r].pc = "directories"
    /\ UNCHANGED <<gpkg, ref, alone>>
    /\ LET es == Plain(check_directories(doc_delim, sub_dirs), "check_directories") IN
       IF tree_valid(doc_delim, sub_dirs)
       THEN Step(r, es, "rm_temp") /\ UNCHANGED response_data
       ELSE create_error_response(r, es,
              <<"L'estructura de directoris de la carpeta de la linia no és vàlida. Si us plau, revisa",
                " que la carpeta DocDelim existeixi i que tots els seus subdirectoris també.">>,
              "directories")

\* get(), lines 94-99: rm_temp drops the temporary layers of WORK_GPKG
RmTemp(r, ok) ==
    /\ run[r].pc = "rm_temp"
    /\ UNCHANGED <<ref, alone>>
    /\ IF ok
       THEN /\ gpkg' = [l \in TempLayers |-> Absent]
            /\ Step(r, Plain(<<Entry(INFO, <<"Arxius temporals esborrats">>)>>, "rm_temp"),
                    "entities")
            /\ UNCHANGED response_data
       ELSE /\ UNCHANGED gpkg
            /\ create_error_response(r, <<>>,
                  <<"Error esborrant arxius temporals => ", "<exception>">>, "rm_temp")

RECURSIVE LastExists(_, _, _)
\* The loops of check_entities_exist: the flag is overwritten for every
\* entity of the list, so that it ends as the answer for the last one.
LastExists(list, missing, flag) ==
    IF list = <<>> THEN flag
    ELSE LastExists(Tail(list), missing, Head(list) \notin missing)

shapes_exist(missing) == LastExists(SHAPES_LIST, missing, FALSE)
tables_exist(missing) == LastExists(TABLE_LIST, missing, FALSE)

\* check_entities_exist: the entries it logs
check_entities_exist(missing) ==
    IF ~shapes_exist(missing) /\ ~tables_exist(missing)
    THEN <<Entry(ERROR, <<"Falten capes i taules necessàries a les carpetes de Cartografia i Taules">>)>>
    ELSE IF ~shapes_exist(missing) /\ tables_exist(missing)
    THEN <<Entry(ERROR, <<"Falten capes necessàries a la carpeta de Cartografia">>)>>
    ELSE IF shapes_exist(missing) /\ ~tables_exist(missing)
    THEN <<Entry(ERROR, <<"Falten taules necessàries a la carpeta de Taules">>)>>
    ELSE <<>>

entities_exist(missing) == shapes_exist(missing) /\ tables_exist(missing)

\* get(), lines 101-106.  missing: the layers and tables the line's folder
\* lacks; folder: what the folder holds.
CheckEntities(r, missing, folder) ==
    /\ run[r].pc = "entities"
    /\ UNCHANGED <<gpkg, ref, alone>>
    /\ LET es == Plain(check_entities_exist(missing), "check_entities_exist") IN
       IF entities_exist(missing)
       THEN /\ lg' = LogAll(lg, es, r, Len(run[r].emitted) + 1)
            /\ run' = [run EXCEPT ![r].pc = "copy", ![r].emitted = @ \o es,
                                  ![r].missing = missing, ![r].folder = folder]
            /\ UNCHANGED response_data
       ELSE error_response_of(r, [run[r] EXCEPT !.missing = missing, !.folder = folder], es,
              <<"Falten capes o taules necessaries pel procés de control de qualitat. Si us plau, revisa que totes les capes i taules",
                " estiguin a les carpetes 'Cartografia' i 'Taules'.">>, "entities")

RECURSIVE CopyLoop(_, _, _, _)
\* The loops of copy_data_2_gpkg over SHAPES_LIST then TABLE_LIST: every
\* entity read is written to WORK_GPKG; the first that cannot be read ends
\* the copy (reading a missing file raises).
CopyLoop(list, r, g, failed) ==
    IF list = <<>> \/ failed # <<>> THEN [gpkg |-> g, failed |-> failed]
    ELSE IF Head(list) \in run[r].missing
    THEN [gpkg |-> g, failed |-> <<Head(list)>>]
    ELSE CopyLoop(Tail(list), r,
                  [g EXCEPT ![Head(list)] = Layer(run[r].folder, run[r].line_id, r)],
                  failed)

\* copy_data_2_gpkg: the entries it logs
copy_data_2_gpkg_log(r, failed) ==
    IF failed = <<>>
    THEN <<Entry(INFO, <<"Capes i taules de la linia ", run[r].line_id,
                         " copiades correctament a CQline.gpkg">>)>>
    ELSE IF InList(failed[1], SHAPES_LIST)
    THEN <<Entry(ERROR, <<"No s'ha pogut copiar la capa ", failed[1], " => ", "<exception>", ".">>)>>
    ELSE <<Entry(ERROR, <<"No s'ha pogut copiar la taula ", failed[1], " => ", "<exception>">>)>>

\* get(), lines 108-112
CopyData(r) ==
    /\ run[r].pc = "copy"
    /\ UNCHANGED <<ref, alone>>
    /\ LET c == CopyLoop(SHAPES_LIST \o TABLE_LIST, r, gpkg, <<>>)
           es == Plain(copy_data_2_gpkg_log(r, c.failed), "copy_data_2_gpkg")
       IN  /\ gpkg' = c.gpkg
           /\ IF c.failed = <<>>
              THEN Step(r, es, "load") /\ UNCHANGED response_data
              ELSE create_error_response(r, es,
                     <<"No s'han pogut copiar capes o taules. Veure log per més informació.">>,
                     "copy")

\* The layers of a view instance as data: every layer with the content of
\* the folder it was copied from.
Content(src) == Dataset(src.v, src.lid)

LayersOf(r) ==
    LET src == run[r].layers
        p_proposta == Content(src["P_Proposta"]).p_proposta
        punt_fit == Content(src["PUNT_FIT"]).punt_fit
        punt == Content(src["Punt"]).punt
        lin_tram == Content(src["Lin_TramPpta"]).lin_tram
        ppf_list == get_ppf_list(p_proposta)
    IN  [tram_line_mem |-> ref.tram, fita_mem |-> ref.fita,
         lin_tram |-> lin_tram, crosses |-> Content(src["Lin_TramPpta"]).crosses,
         punt |-> punt, p_proposta |-> p_proposta, punt_fit |-> punt_fit,
         photos |-> Dataset(run[r].folder, run[r].line_id).photos,
         ppf_list |-> ppf_list,
         founded_points_dict |-> get_founded_points_dict(punt_fit, ppf_list),
         points_coords_dict |-> get_round_point_coordinates(punt).items,
         line_coords_list |-> get_round_line_coordinates(lin_tram).items]

\* get(), lines 114-122: set_layers_gdf reads the layers from WORK_GPKG (and
\* raises if one is not there); then the derived lists and dicts.
LoadLayers(r) ==
    /\ run[r].pc = "load"
    /\ UNCHANGED <<gpkg, ref, lg, response_data, alone>>
    /\ IF \E l \in TempLayers : ~gpkg[l].present
       THEN run' = [run EXCEPT ![r].pc = "exception"]
       ELSE LET punt == Content(gpkg["Punt"]).punt
                lin_tram == Content(gpkg["Lin_TramPpta"]).lin_tram
            IN  IF get_round_point_coordinates(punt).exc \/ get_round_line_coordinates(lin_tram).exc
                THEN run' = [run EXCEPT ![r].pc = "exception", ![r].layers = gpkg]
                ELSE run' = [run EXCEPT ![r].pc = "check", ![r].layers = gpkg]

\* get(), lines 126-133: the duplicate-line-ID check, then the schema gate.
\* check_fields_lin_tram_ppta reads the line layer from WORK_GPKG again.
CheckSchema(r) ==
    /\ run[r].pc = "check"
    /\ UNCHANGED <<gpkg, ref, alone>>
    /\ LET L == LayersOf(r)
           es1 == Tagged(check_line_id_exists(L, run[r].line_id), "check_line_id_exists").out
       IN  IF ~gpkg["Lin_TramPpta"].present
           THEN Throw(r, es1) /\ UNCHANGED response_data
           ELSE LET lin_tram_fields == Content(gpkg["Lin_TramPpta"]).fields
                    es2 == Tagged(check_fields_lin_tram_ppta(lin_tram_fields),
                                  "check_fields_lin_tram_ppta").out
                    es3 == Tagged(check_fields_content_lint_tram_ppta(L, run[r].line_id),
                                  "check_fields_content_lint_tram_ppta").out
                IN  IF fields_lin_tram_ppta_ok(lin_tram_fields)
                    THEN Step(r, es1 \o es2 \o es3, "validate") /\ UNCHANGED response_data
                    ELSE create_error_response(r, es1 \o es2,
                           <<"L'estructura de camps de Lin_TramPpta.shp no és correcte i no es pot continuar el procés, donat que hi ha algun",
                             " camp que falta o sobra a la capa. Si us plau, revisa-la.">>,
                           "schema")

\* get(), lines 135-150
Validate(r) ==
    /\ run[r].pc = "validate"
    /\ UNCHANGED <<gpkg, ref, response_data, alone>>
    /\ LET res == RunValidators(LayersOf(r)) IN
       IF res.exc THEN Throw(r, res.out) ELSE Step(r, res.out, "finalize")

\* One line of the log as add_response_data reads it back:
\* report.split('-')[0] and report.split('-')[1].
ParseReport(ln) ==
    LET pieces == Split(ln.text, DASH) IN
    [level |-> pieces[1], report_message |-> pieces[2], run |-> ln.run, k |-> ln.k]

Parsable(ln) == Len(Split(ln.text, DASH)) >= 2

\* add_response_data: the report list read from the log of the run
add_response_data(lines) == [i \in 1..Len(lines) |-> ParseReport(lines[i])]

\* The result by the records of the run: "error" once an error was logged.
result_by_level(r) ==
    IF \E i \in 1..Len(run[r].emitted) : run[r].emitted[i].level = ERROR THEN "error" ELSE "OK"

\* get(), line 153: the result of a run that no gate stopped, whatever the
\* validators logged.
result_checked(r) == "OK"

\* get(), lines 153-156: result and message are set in the shared dict, the
\* log is read back into 'reports', logging is shut down and the dict is
\* handed to the template.
Finalize(r) ==
    /\ run[r].pc = "finalize"
    /\ UNCHANGED <<gpkg, ref, alone>>
    /\ LET log == lg.logs[run[r].line_id]
           rd == [response_data EXCEPT
                     !.keys = @ \cup {"result", "message"},
                     !.result = result_checked(r),
                     !.message = <<"Linia ", run[r].line_id, " checkejada">>]
       IN  IF ~log.exists \/ \E i \in 1..Len(log.lines) : ~Parsable(log.lines[i])
           THEN /\ response_data' = rd
                /\ run' = [run EXCEPT ![r].pc = "exception"]
                /\ UNCHANGED lg
           ELSE LET done == [rd EXCEPT !.keys = @ \cup {"reports"},
                                       !.reports = add_response_data(log.lines)]
                IN  /\ response_data' = done
                    /\ lg' = Shutdown(lg)
                    /\ run' = [run EXCEPT ![r].pc = "returned", ![r].resp = done]

\* The states of a line's folder a request can meet: DocDelim with all its
\* sub-directories, with one missing, with none.
SubDirChoices ==
    {Range(SUB_DIR_LIST)} \cup {Range(SUB_DIR_LIST) \ {d} : d \in Range(SUB_DIR_LIST)} \cup {{}}

\* ... and its layers and tables: all there, with any of the contents, or
\* one of them missing.
FolderChoices ==
    {[missing |-> {}, folder |-> v] : v \in Variants}
    \cup {[missing |-> {l}, folder |-> "clean"] : l \in TempLayers}

\* A request is served to its end before the next one is taken (one worker).
SeqRequest(r, id, log_dir_ok, remove_ok) ==
    /\ \A q \in Runs : ~Active(q)
    /\ Request(r, id, log_dir_ok, remove_ok)

\* The steps of a request already taken.
Progress(r) ==
    \/ \E exists \in BOOLEAN : CheckLineDir(r, exists)
    \/ \E doc_delim \in BOOLEAN, sub_dirs \in SubDirChoices :
          CheckDirectories(r, doc_delim, sub_dirs)
    \/ \E ok \in BOOLEAN : RmTemp(r, ok)
    \/ \E f \in FolderChoices : CheckEntities(r, f.missing, f.folder)
    \/ CopyData(r)
    \/ LoadLayers(r)
    \/ CheckSchema(r)
    \/ Validate(r)
    \/ Finalize(r)

Next ==
    \/ \E r \in Runs, id \in LineIds \cup {NoId}, log_dir_ok \in BOOLEAN, remove_ok \in BOOLEAN :
          SeqRequest(r, id, log_dir_ok, remove_ok)
    \/ \E r \in Runs : Progress(r)

Spec == Init /\ [][Next]_vars

\* Requests served by several threads: the steps of different requests
\* interleave.  The first request is for line 1, the later ones for line 2
\* or without a line id; the folders of the lines are complete and correct.
ConcIds(r) == IF r = 1 THEN {"1"} ELSE {"2", NoId}

ProgressConc(r) ==
    \/ CheckLineDir(r, TRUE)
    \/ CheckDirectories(r, TRUE, Range(SUB_DIR_LIST))
    \/ RmTemp(r, TRUE)
    \/ CheckEntities(r, {}, "clean")
    \/ CopyData(r)
    \/ LoadLayers(r)
    \/ CheckSchema(r)
    \/ Validate(r)
    \/ Finalize(r)

NextConc ==
    \/ \E r \in Runs : \E id \in ConcIds(r) : Request(r, id, TRUE, TRUE)
    \/ \E r \in Runs : ProgressConc(r)

SpecConc == Init /\ [][NextConc]_vars

\* ------------------------------------- validators called on their own
\* A validator is a function of the layers it reads.  To check one on every
\* content of its layers up to a size, it is called on its own, outside a
\* request: call holds the layers, result what each execution logged.
\* Coordinates in thousandths: on a tenth, 0.01 and 0.011 off it, half way
\* between two tenths (from an even and from an odd one), 0.011 below one.
Coords == {0, 10, 11, 50, 89, 150}
\* The places of a marker: one coordinate on a tenth and the other any of
\* Coords, or both off a tenth.
CoordPairs ==
    {<<c, 0>> : c \in Coords} \cup {<<0, c>> : c \in Coords}
        \cup {<<10, 10>>, <<89, 50>>, <<11, 150>>}

IndexSeq(n) == [i \in 1..n |-> i]
IdOfIndex(i) == Pid(ToString(i))
\* The ID_PUNT of the markers at the places S, in the order of the layer.
IdsAt(n, S) == LET Chosen(i) == i \in S IN Map(Filter(IndexSeq(n), Chosen), IdOfIndex)

\* The point layers of n markers, with the list of those of them that are
\* final-proposed.
DecimalsCalls(n) ==
    {[f |-> "check_points_decimals",
      punts |-> [i \in 1..n |-> BasePunt(ToString(i), at[i][1], at[i][2])],
      ppf_list |-> IdsAt(n, S)] :
        at \in [1..n -> CoordPairs], S \in SUBSET (1..n)}

\* A nullable integer field of a table.
Nullable == {Null, Some(0), Some(1)}

\* The proposal tables of n records.
PropostaCalls(n) ==
    {[f |-> "info_p_proposta",
      p_proposta |-> [i \in 1..n |-> [ID_PUNT |-> IdOfIndex(i), PFF |-> pff[i],
                                       ESFITA |-> esfita[i], ORDPF |-> ordpf[i]]]] :
        pff \in [1..n -> {0, 1}], esfita \in [1..n -> Nullable], ordpf \in [1..n -> Nullable]}

InitAlone(calls) ==
    /\ Started
    /\ ref = [tram |-> {}, fita |-> {}]
    /\ call \in calls
    /\ result = <<>>

\* check_points_decimals is executed (once more) on the layers of the call.
CallDecimals ==
    /\ call.f = "check_points_decimals"
    /\ Len(result) < MaxCalls
    /\ result' = Append(result, check_points_decimals(call.punts, call.ppf_list).out)
    /\ UNCHANGED <<lg, response_data, gpkg, ref, run, call>>

\* Layers of up to MaxPoints markers.
InitDecimals == \E n \in 0..MaxPoints : InitAlone(DecimalsCalls(n))
SpecDecimals == InitDecimals /\ [][CallDecimals]_vars

\* info_p_proposta is executed (once more) on the table of the call.
CallProposta ==
    /\ call.f = "info_p_proposta"
    /\ Len(result) < MaxCalls
    /\ result' = Append(result, info_p_proposta(call.p_proposta).out)
    /\ UNCHANGED <<lg, response_data, gpkg, ref, run, call>>

\* Tables of up to MaxRecords records.
InitProposta == \E n \in 0..MaxRecords : InitAlone(PropostaCalls(n))
SpecProposta == InitProposta /\ [][CallProposta]_vars

\* ================================================================ claims
\* The gates of get(), as create_error_response records them in a run.
Gates == {"no_id", "line_dir", "directories", "rm_temp", "entities", "copy", "schema"}

Answered(r) == run[r].pc = "returned"
\* A request that was answered without any gate stopping it.
Completed(r) == Answered(r) /\ run[r].gate = ""
ErrorsEmitted(r) == {i \in 1..Len(run[r].emitted) : run[r].emitted[i].level = ERROR}

\* C1: a run that passes every gate is answered with result OK, however many
\* error records its validators logged; a run is answered with result error
\* only when a gate stopped it.
C1_OkUnlessGated ==
    \A r \in Runs :
        Answered(r) =>
            /\ run[r].gate = "" => run[r].resp.result = "OK"
            /\ run[r].resp.result = "error" => run[r].gate \in Gates
            /\ run[r].resp.result \in {"OK", "error"}

\* C1, its case: a completed run whose validators logged errors.
C1_Witness ==
    \E r \in Runs :
        /\ Completed(r)
        /\ run[r].resp.result = "OK"
        /\ Cardinality(ErrorsEmitted(r)) >= 2
        /\ \A i \in ErrorsEmitted(r) : run[r].emitted[i].by \in ValidatorTags

\* C2: a run that a gate stops is answered with result error, one message
\* and no report entries, also after an earlier run of the process completed.
C2_GatedHasNoReports ==
    \A r \in Runs :
        (Answered(r) /\ run[r].gate \in Gates) =>
            /\ run[r].resp.result = "error"
            /\ run[r].resp.message # <<>>
            /\ "reports" \notin run[r].resp.keys
            /\ run[r].resp.reports = <<>>

\* The records of run r that the step or validator named by logged.
EmittedBy(r, by) == {i \in 1..Len(run[r].emitted) : run[r].emitted[i].by = by}
SchemaGated(r) == Answered(r) /\ run[r].gate = "schema"

\* C3: a run stopped at the schema gate is answered with result error, logs
\* one gate error, and none of the attribute and topology validators, the
\* duplicate-line-ID check among them, logs a record in it.
C3_SchemaGateSilencesValidators ==
    \A r \in Runs :
        SchemaGated(r) =>
            /\ run[r].resp.result = "error"
            /\ Cardinality(EmittedBy(r, "create_error_response")) = 1
            /\ \A i \in 1..Len(run[r].emitted) : run[r].emitted[i].by \notin ValidatorTags

\* C4: once a run is past every gate no validator aborts it: the step that
\* runs the validators never ends in an unhandled exception.
C4_ValidatorsNeverAbort ==
    [][\A r \in Runs : run[r].pc = "validate" => run'[r].pc # "exception"]_vars

\* C5: every entry of the report of a completed run has the level of the
\* record emitted (the blank of the separator apart) and its message in full.
C5_ReportVerbatim ==
    \A r \in Runs :
        Completed(r) =>
            \A i \in 1..Len(run[r].resp.reports) :
                LET e == run[r].emitted[i]
                    rep == run[r].resp.reports[i]
                IN  /\ i <= Len(run[r].emitted)
                    /\ rep.level \in {<<e.level>>, <<e.level, " ">>}
                    /\ rep.report_message \in {e.msg, <<" ">> \o e.msg}

\* C6: the report of a completed run holds the records that run emitted,
\* each once and in the order emitted, and no record of another run.
C6_ReportIsOwnEmissions ==
    \A r \in Runs :
        Completed(r) =>
            /\ Len(run[r].resp.reports) = Len(run[r].emitted)
            /\ \A i \in 1..Len(run[r].resp.reports) :
                  /\ run[r].resp.reports[i].run = r
                  /\ run[r].resp.reports[i].k = i
                  /\ run[r].resp.reports[i].level[1] = run[r].emitted[i].level

\* C6, its case: a completed run of a line checked before, the root logger
\* holding the earlier run's handler on the same log file and its own.
C6_Witness ==
    \E r \in Runs :
        /\ Completed(r)
        /\ Len(run[r].emitted) >= 2
        /\ \E i, j \in 1..Len(lg.handlers) :
              /\ i < j
              /\ lg.handlers[i].path = run[r].line_id
              /\ lg.handlers[j].path = run[r].line_id

\* C7: WORK_GPKG is one run's own: the layers a run loads and validates are
\* those it copied itself, and they are still there when it loads them.
C7_LoadsOwnLayers ==
    \A r \in Runs :
        /\ run[r].pc = "load" =>
              \A l \in TempLayers : gpkg[l].present /\ gpkg[l].by = r
        /\ (run[r].pc \in {"check", "validate", "finalize"} \/ Completed(r)) =>
              \A l \in TempLayers : run[r].layers[l].present /\ run[r].layers[l].by = r

\* C8: the result a run returned is never changed afterwards.
C8_ReturnedResultFrozen ==
    [][\A r \in Runs : Answered(r) => response_data' = response_data]_vars

\* The error records among out, in order.
IsErrorEntry(e) == e.level = ERROR
ErrorsOf(out) == Filter(out, IsErrorEntry)
\* How many records of out are e.
CountOf(out, e) == Cardinality({i \in 1..Len(out) : out[i] = e})

\* C9: check_points_decimals logs an error for a marker iff the marker is
\* final-proposed and x or y is more than 0.01 off its rounding to a tenth,
\* one error per such marker; it logs that the markers are correctly rounded
\* iff there is no such marker; a marker that is not final-proposed gets no
\* record; and executed again on data that passed, it passes again.
C9_Decimals ==
    (call # NoCall /\ call.f = "check_points_decimals") =>
        LET Violating(feature) ==
                /\ InList(feature.ID_PUNT, call.ppf_list)
                /\ \/ Abs(feature.x - Round1(feature.x)) > Tolerance
                   \/ Abs(feature.y - Round1(feature.y)) > Tolerance
            violating == Filter(call.punts, Violating)
        IN  \A c \in 1..Len(result) :
                /\ ErrorsOf(result[c]) = Map(violating, DecimalsMsg)
                /\ \A i \in 1..Len(call.punts) :
                      CountOf(result[c], DecimalsMsg(call.punts[i])) =
                          IF Violating(call.punts[i]) THEN 1 ELSE 0
                /\ CountOf(result[c], DecimalsOkMsg) = (IF violating = <<>> THEN 1 ELSE 0)
                /\ Len(result[c]) = Len(violating) + (IF violating = <<>> THEN 1 ELSE 0)
                /\ ErrorsOf(result[1]) = <<>> => ErrorsOf(result[c]) = <<>>

\* C9, its case: a layer with a final-proposed marker 0.011 off a tenth in y
\* only and a marker as far off that is not final-proposed, checked twice.
C9_Witness ==
    /\ call # NoCall /\ call.f = "check_points_decimals"
    /\ Len(call.punts) = 2
    /\ call.ppf_list = <<IdOfIndex(1)>>
    /\ call.punts[1].x = 0 /\ call.punts[1].y = 11
    /\ call.punts[2].x = 89 /\ call.punts[2].y = 50
    /\ Len(result) = 2
    /\ result[2] = <<DecimalsMsg(call.punts[1])>>

\* C10: info_p_proposta logs one error for a record whose ORDPF is null,
\* none for a record with ORDPF = 0, PFF = 1, ESFITA = 0, one error of an
\* auxiliary point marked as real marker for a record with ORDPF = 0,
\* PFF = 1, ESFITA = 1, and that all the records are valid iff it logged no
\* error of either kind.
C10_Proposta ==
    (call # NoCall /\ call.f = "info_p_proposta") =>
        \A c \in 1..Len(result) :
            LET out == result[c]
                ErrorsAbout(rec) ==
                    CountOf(out, OrdpfMsg(rec)) + CountOf(out, BadAuxiliaryMsg(rec))
            IN  /\ \A i \in 1..Len(call.p_proposta) :
                      LET rec == call.p_proposta[i] IN
                      /\ IsNull(rec.ORDPF) =>
                            CountOf(out, OrdpfMsg(rec)) = 1 /\ ErrorsAbout(rec) = 1
                      /\ (rec.ORDPF = Some(0) /\ rec.PFF = 1 /\ rec.ESFITA = Some(0)) =>
                            ErrorsAbout(rec) = 0
                      /\ (rec.ORDPF = Some(0) /\ rec.PFF = 1 /\ rec.ESFITA = Some(1)) =>
                            CountOf(out, BadAuxiliaryMsg(rec)) = 1 /\ ErrorsAbout(rec) = 1
                /\ \A k \in 1..Len(out) :
                      out[k].level = ERROR =>
                          \E i \in 1..Len(call.p_proposta) :
                              out[k] \in {OrdpfMsg(call.p_proposta[i]),
                                          BadAuxiliaryMsg(call.p_proposta[i])}
                /\ CountOf(out, PropostaOkMsg) = (IF ErrorsOf(out) = <<>> THEN 1 ELSE 0)

\* C10, its case: a table with an auxiliary point marked as real marker and
\* a correct auxiliary point: one error, and not the record that all is valid.
C10_Witness ==
    /\ call # NoCall /\ call.f = "info_p_proposta"
    /\ Len(call.p_proposta) = 2
    /\ call.p_proposta[1].PFF = 1 /\ call.p_proposta[1].ORDPF = Some(0)
    /\ call.p_proposta[1].ESFITA = Some(1)
    /\ call.p_proposta[2].PFF = 1 /\ call.p_proposta[2].ORDPF = Some(0)
    /\ call.p_proposta[2].ESFITA = Some(0)
    /\ Len(result) >= 1
    /\ ErrorsOf(result[1]) = <<BadAuxiliaryMsg(call.p_proposta[1])>>
    /\ CountOf(result[1], PropostaOkMsg) = 0

\* --------------------------------- more validators called on their own
\* The validator f of the call is executed; res is what it
\* logged and whether it ended in an unhandled exception.
Execute(f, res) ==
    /\ call.f = f
    /\ result = <<>>
    /\ result' = Append(result, res)
    /\ UNCHANGED <<lg, response_data, gpkg, ref, run, call>>

\* The point identifiers of the layers and tables of a call: one more than
\* a layer has markers, so that a table can name a point the layer lacks.
PointIndexes == 1..(MaxPoints + 1)

\* The sequences of up to n different elements of S.
SeqsOfDistinct(S, n) ==
    UNION {{s \in [1..k -> S] : \A i, j \in 1..k : i # j => s[i] # s[j]} : k \in 0..n}

\* The point layers and tables of check_relation_points_tables: the layer
\* holds the first points of ids, the two tables records of any of ids in
\* any order.
RelationCalls(ids) ==
    {[f |-> "check_relation_points_tables",
      punt |-> [i \in 1..Len(ps) |-> BasePunt(ToString(ps[i]), 0, 0)],
      p_proposta |-> [i \in 1..Len(pr) |-> BaseProposta(ToString(pr[i]), i)],
      punt_fit |-> [i \in 1..Len(pf) |-> BaseFit(ToString(pf[i]))]] :
        ps \in {IndexSeq(k) : k \in 0..MaxPoints},
        pr \in SeqsOfDistinct(ids, MaxRecords),
        pf \in SeqsOfDistinct(ids, MaxRecords)}

CallRelation ==
    Execute("check_relation_points_tables",
            check_relation_points_tables(
                [punt |-> call.punt, p_proposta |-> call.p_proposta, punt_fit |-> call.punt_fit]))

IsCall(f) == call # NoCall /\ call.f = f
InLayer(rec, punt) == \E i \in 1..Len(punt) : punt[i].ID_PUNT = rec.ID_PUNT

\* C11: check_relation_points_tables logs exactly one error for every record
\* of P_Proposta and of PUNT_FIT whose ID_PUNT is not in the point layer, the
\* error naming that record's own identifier, and none for the other records.
C11_RelationNamesOwnRecord ==
    IsCall("check_relation_points_tables") =>
        \A c \in 1..Len(result) :
            /\ ~result[c].exc
            /\ \A i \in 1..Len(call.p_proposta) :
                  CountOf(result[c].out,
                          PropostaMissingMsg(SplitLast(call.p_proposta[i].ID_PUNT))) =
                      IF InLayer(call.p_proposta[i], call.punt) THEN 0 ELSE 1
            /\ \A i \in 1..Len(call.punt_fit) :
                  CountOf(result[c].out,
                          PuntFitMissingMsg(SplitLast(call.punt_fit[i].ID_PUNT))) =
                      IF InLayer(call.punt_fit[i], call.punt) THEN 0 ELSE 1

\* Where a marker can be, the line running from (0, 0) to (1, 0): on a
\* vertex, 0.04 from it (rounded onto it), and between its vertices (on no
\* vertex).
MarkerPlaces == {<<0, 0>>, <<40, 0>>, <<500, 0>>}
\* The record of a marker in the found-marker table: none, or one with its
\* auxiliary flag.
FitChoices == {"none", "0", "1"}

FitRecords(n, fit) ==
    LET Has(i) == fit[i] # "none"
        Rec(i) == [BaseFit(ToString(i)) EXCEPT !.AUX = fit[i]]
    IN  Map(Filter(IndexSeq(n), Has), Rec)

\* The layers of check_auxiliary_point: n markers, the final-proposed ones
\* among them, and the found-marker table.
AuxiliaryCalls(n) ==
    {[f |-> "check_auxiliary_point",
      lin_tram |-> <<BaseTram("1")>>,
      punt |-> [i \in 1..n |-> BasePunt(ToString(i), at[i][1], at[i][2])],
      ppf_list |-> IdsAt(n, S),
      punt_fit |-> FitRecords(n, fit)] :
        at \in [1..n -> MarkerPlaces], S \in SUBSET (1..n), fit \in [1..n -> FitChoices]}

\* get(), lines 120-122, then check_auxiliary_point on the found-marker
\* table punt_fit.
AuxiliaryOf(punt_fit) ==
    check_auxiliary_point(
        [points_coords_dict |-> get_round_point_coordinates(call.punt).items,
         line_coords_list |-> get_round_line_coordinates(call.lin_tram).items,
         ppf_list |-> call.ppf_list, punt_fit |-> punt_fit])

CallAuxiliary == Execute("check_auxiliary_point", AuxiliaryOf(call.punt_fit))

\* A marker that is final-proposed and on no (rounded) vertex of the line.
OffLinePpf(feature) ==
    /\ ~InList(RoundXY(<<feature.x, feature.y>>), Map(call.lin_tram[1].coords, RoundXY))
    /\ InList(feature.ID_PUNT, call.ppf_list)

\* The records of a marker in the found-marker table.
FitRecordsOf(feature) == LET Same(rec) == rec.ID_PUNT = feature.ID_PUNT IN Filter(call.punt_fit, Same)

\* The found-marker table with the auxiliary flag of the marker's records
\* turned over.
FlagTurned(feature) ==
    [k \in 1..Len(call.punt_fit) |->
        IF call.punt_fit[k].ID_PUNT = feature.ID_PUNT
        THEN [call.punt_fit[k] EXCEPT !.AUX = IF @ = "1" THEN "0" ELSE "1"]
        ELSE call.punt_fit[k]]

EndPlaces == {<<0, 0>>, <<40, 0>>, <<1000, 0>>}

EndpointCalls(n) ==
    {[f |-> "check_endpoint_covered_point",
      lin_tram |-> [k \in 1..m |->
                      [BaseTram("1") EXCEPT !.ID = <<"T", ToString(k)>>, !.coords = ends[k]]],
      punt |-> [i \in 1..n |-> BasePunt(ToString(i), at[i][1], at[i][2])]] :
        at \in [1..n -> MarkerPlaces], ends \in [1..2 -> EndPlaces \X EndPlaces], m \in 1..2}

\* get(), lines 120-121, then check_endpoint_covered_point
CallEndpoint ==
    Execute("check_endpoint_covered_point",
            check_endpoint_covered_point(
                [lin_tram |-> call.lin_tram,
                 points_coords_dict |-> get_round_point_coordinates(call.punt).items]))

\* A vertex that, rounded, is the rounded place of a marker of the layer.
OnMarker(v) ==
    \E i \in 1..Len(call.punt) : RoundXY(<<call.punt[i].x, call.punt[i].y>>) = RoundXY(v)

\* C13: check_endpoint_covered_point logs the error of a segment exactly when
\* its first or its last endpoint, rounded, is on no marker (a segment whose
\* first endpoint is on a marker and whose last is on none included), and the
\* info entry exactly when both endpoints of every segment are on a marker.
C13_EndpointEitherEnd ==
    IsCall("check_endpoint_covered_point") =>
        \A c \in 1..Len(result) :
            LET out == result[c].out
                Covered(feature) == OnMarker(feature.coords[1]) /\ OnMarker(feature.coords[Len(feature.coords)])
            IN  /\ ~result[c].exc
                /\ \A k \in 1..Len(call.lin_tram) :
                      CountOf(out, EndpointMsg(call.lin_tram[k].ID))
                          = IF Covered(call.lin_tram[k]) THEN 0 ELSE 1
                /\ (\E k \in 1..Len(out) : out[k].level = INFO)
                      <=> \A k \in 1..Len(call.lin_tram) : Covered(call.lin_tram[k])

\* The vertices of a segment that crosses itself.
Bow == << <<0, 0>>, <<1000, 1000>>, <<1000, 0>>, <<0, 1000>> >>

\* The layer of check_line_crosses_itself: n segments, the geometry g[k] of
\* each, which geometries are simple, and which pairs of different geometries
\* cross.
CrossCalls(n) ==
    {[f |-> "check_line_crosses_itself",
      lin_tram |-> [k \in 1..n |->
                      [BaseTram("1") EXCEPT !.ID = <<"T", ToString(k)>>, !.g = g[k],
                                            !.simple = g[k] \in simple,
                                            !.coords = IF g[k] \in simple THEN @ ELSE Bow]],
      crosses |-> crosses] :
        g \in [1..n -> 1..n], simple \in SUBSET (1..n),
        crosses \in SUBSET ({{a, b} : a, b \in 1..n} \ {{a} : a \in 1..n})}

CallCross ==
    Execute("check_line_crosses_itself",
            check_line_crosses_itself([lin_tram |-> call.lin_tram, crosses |-> call.crosses]))

\* C14: with every segment simple and no two segments crossing,
\* check_line_crosses_itself logs its info entry and no error; a segment that
\* is not simple has an error entry naming it; two segments that cross have
\* an error entry naming both.
C14_CrossesItself ==
    IsCall("check_line_crosses_itself") =>
        \A c \in 1..Len(result) :
            LET out == result[c].out
                trams == call.lin_tram
                Pair(a, b) == a # b /\ {trams[a].g, trams[b].g} \in call.crosses
            IN  /\ ~result[c].exc
                /\ ((\A k \in 1..Len(trams) : trams[k].simple)
                       /\ (\A a, b \in 1..Len(trams) : ~Pair(a, b)))
                      => /\ ErrorsOf(out) = <<>>
                         /\ \E k \in 1..Len(out) : out[k].level = INFO
                /\ \A k \in 1..Len(trams) :
                      ~trams[k].simple => CountOf(out, SelfTouchMsg(trams[k])) >= 1
                /\ \A a, b \in 1..Len(trams) :
                      Pair(a, b) => CountOf(out, CrossMsg(trams[a], trams[b]))
                                      + CountOf(out, CrossMsg(trams[b], trams[a])) >= 1

\* The layers of the found-marker checks: 1 + n markers, each with a height
\* and with its record in the found-marker table.  A marker is final-proposed
\* or not and recorded as found or not.  In the layers about photos a marker
\* has a photo filename or none, every height is 0, and the records have
\* their own marker number or all of them the same; in the layers about
\* heights a marker is at height 5 or 0, every marker has its photo, and the
\* markers have their own label or all of them the same.  The photos named
\* are in the folder.
MarkerKinds == [ppf : BOOLEAN, found : BOOLEAN, has : BOOLEAN]

FoundCalls(n) ==
    {[f |-> "check_found_points",
      punt |-> [i \in 1..(n + 1) |->
                  [BasePunt(ToString(i), 0, 0) EXCEPT
                      !.ETIQUETA = Label(IF about = "z" /\ shared THEN "1" ELSE ToString(i)),
                      !.z = Some(IF about = "z" /\ kind[i].has THEN 5 ELSE 0),
                      !.FOTOS = IF about = "z" \/ kind[i].has
                                THEN Some(<<"F", ToString(i), ".jpg">>) ELSE Null]],
      ppf_list |-> LET Ppf(i) == kind[i].ppf IN IdsAt(n + 1, {i \in 1..(n + 1) : Ppf(i)}),
      punt_fit |-> [i \in 1..(n + 1) |->
                      [BaseFit(ToString(i)) EXCEPT
                          !.ID_FITA = <<IF about = "photo" /\ shared THEN "1" ELSE ToString(i)>>,
                          !.TROBADA = IF kind[i].found THEN "1" ELSE "0"]],
      photos |-> {<<"F", ToString(i), ".jpg">> : i \in 1..(n + 1)}] :
        kind \in [1..(n + 1) -> MarkerKinds], about \in {"photo", "z"}, shared \in BOOLEAN}

\* get(), lines 117-119 and 141-142
CallFound ==
    Execute("check_found_points",
            found_points_step(
                [punt |-> call.punt, ppf_list |-> call.ppf_list, photos |-> call.photos,
                 founded_points_dict |-> get_founded_points_dict(call.punt_fit, call.ppf_list)]))

\* C16: the found-marker checks run exactly when a record of the found-marker
\* table is recorded as found, whether or not a found marker is
\* final-proposed; each of the three checks logs at least one entry when run.
C16_FoundChecksGate ==
    IsCall("check_found_points") =>
        \A c \in 1..Len(result) :
            (result[c].exc \/ Len(result[c].out) >= 3)
                <=> \E k \in 1..Len(call.punt_fit) : IsFound(call.punt_fit[k])

\* The record of a marker in the found-marker table.
FitOf(feature) == FitRecordsOf(feature)[1]

\* A final-proposed marker recorded as found.
FoundPpf(feature) ==
    InList(feature.ID_PUNT, call.ppf_list) /\ IsFound(FitOf(feature))

\* C18: when the found-marker checks run, check_photo_exists logs exactly one
\* error for every final-proposed found marker without a photo filename, also
\* where two found records have the same marker number, and its info entry
\* exactly when there is no such marker.
C18_PhotoExists ==
    (/\ IsCall("check_found_points")
     /\ \E i \in 1..Len(call.punt) : FoundPpf(call.punt[i])) =>
        \A c \in 1..Len(result) :
            LET out == result[c].out
                NoPhoto(feature) == FoundPpf(feature) /\ ~HasPhoto(feature)
            IN  /\ ~result[c].exc
                /\ \A i \in 1..Len(call.punt) :
                      NoPhoto(call.punt[i]) =>
                          CountOf(out, NoPhotoMsg(<<FitOf(call.punt[i]).ID_FITA, call.punt[i].ID_PUNT>>)) = 1
                /\ CountOf(out, Entry(INFO, <<"Totes les fites trobades tenen fotografia.">>))
                      = IF \E i \in 1..Len(call.punt) : NoPhoto(call.punt[i]) THEN 0 ELSE 1

\* C19: when the found-marker checks run, check_cota_fita logs exactly one
\* error for every final-proposed marker with a height above 0 whose
\* identifier is not among the values of founded_points_dict, also where two
\* such markers have the same label, and
\* its info entry exactly when there is no such marker.
C19_CotaFita ==
    (/\ IsCall("check_found_points")
     /\ \E i \in 1..Len(call.punt) : FoundPpf(call.punt[i])) =>
        \A c \in 1..Len(result) :
            LET out == result[c].out
                HighNotFound(feature) ==
                    /\ InList(feature.ID_PUNT, call.ppf_list)
                    /\ feature.z[1] > 0
                    /\ ~InList(feature.ID_PUNT, DictValues(
                            get_founded_points_dict(call.punt_fit, call.ppf_list).items))
            IN  /\ ~result[c].exc
                /\ \A i \in 1..Len(call.punt) :
                      CountOf(out, CotaMsg(<<call.punt[i].ETIQUETA, call.punt[i].ID_PUNT>>))
                          = IF HighNotFound(call.punt[i]) THEN 1 ELSE 0
                /\ CountOf(out, Entry(INFO, <<"Totes les fites amb coordenada Z són trobades">>))
                      = IF \E i \in 1..Len(call.punt) : HighNotFound(call.punt[i]) THEN 0 ELSE 1

\* The layer of check_3termes: 1 + n markers with labels <prefix>-<number>,
\* the numbers 1, 2, ... in the order of the layer or in the reverse order,
\* the prefix "F" or "F4"; a marker is final-proposed or not and has its
\* contact attribute populated or null.
\* The columns of the marker-point layer as loaded.
punt_columns == <<"ID_PUNT", "ETIQUETA", "FOTOS", "CONTACTE", "geometry">>

TermesKinds == [ppf : BOOLEAN, digit : BOOLEAN, contact : BOOLEAN]

TermesCalls(n) ==
    {[f |-> "check_3termes",
      punt |-> [i \in 1..(n + 1) |->
                  [BasePunt(ToString(i), 0, 0) EXCEPT
                      !.ETIQUETA = (IF kind[i].digit THEN <<"F", "4">> ELSE <<"F">>)
                                      \o <<DASH, ToString(IF up THEN i ELSE n + 2 - i)>>,
                      !.CONTACTE = IF kind[i].contact THEN Some(<<"3T">>) ELSE Null]],
      columns |-> punt_columns,
      ppf_list |-> LET Ppf(i) == kind[i].ppf IN IdsAt(n + 1, {i \in 1..(n + 1) : Ppf(i)})] :
        kind \in [1..(n + 1) -> TermesKinds], up \in BOOLEAN}

\* check_3termes on the layer the view instance holds, which it leaves with
\* the columns it gives it.
CallTermes ==
    LET L == [punt |-> call.punt, ppf_list |-> call.ppf_list] IN
    /\ call.f = "check_3termes"
    /\ result = <<>>
    /\ result' = Append(result, check_3termes(L))
    /\ call' = [call EXCEPT !.columns = columns_after_3termes(L, @)]
    /\ UNCHANGED <<lg, response_data, gpkg, ref, run>>

\* The number after the last '-' of a label.
SuffixOf(label) == NumVal(label[Len(label)])

\* C17: on a layer with a final-proposed marker, check_3termes logs two
\* entries: an error if the final-proposed marker of the smallest or that of
\* the largest label suffix has no contact attribute and the info entry if
\* both have one, whatever the prefixes of the labels; then the number of
\* markers of the layer with the contact attribute populated.
C17_Termes ==
    (IsCall("check_3termes") /\ call.ppf_list # <<>>) =>
        \A c \in 1..Len(result) :
            LET InPpf(feature) == InList(feature.ID_PUNT, call.ppf_list)
                ppf == Filter(call.punt, InPpf)
                lo == CHOOSE i \in 1..Len(ppf) :
                          \A j \in 1..Len(ppf) : SuffixOf(ppf[i].ETIQUETA) <= SuffixOf(ppf[j].ETIQUETA)
                hi == CHOOSE i \in 1..Len(ppf) :
                          \A j \in 1..Len(ppf) : SuffixOf(ppf[i].ETIQUETA) >= SuffixOf(ppf[j].ETIQUETA)
            IN  /\ ~result[c].exc
                /\ Len(result[c].out) = 2
                /\ result[c].out[1].level =
                      IF ContacteInformed(ppf[lo]) /\ ContacteInformed(ppf[hi]) THEN INFO ELSE ERROR
                /\ result[c].out[2] =
                      Entry(INFO, <<"Hi ha un total de ",
                                    ToString(Len(Filter(call.punt, ContacteInformed))),
                                    " fites amb el camp CONTACTE informat.">>)

\* The field lists of a line layer: the required fields in the order of
\* true_fields or in the reverse order, without some of them, and up to n
\* other fields before or after them.
OtherFields == {"OBS", "NOTA", "AREA"}

Reverse(s) == [i \in 1..Len(s) |-> s[Len(s) + 1 - i]]

SchemaCalls(n) ==
    {[f |-> "check_fields_lin_tram_ppta",
      fields |-> LET Kept(field) == field \notin missing
                     kept == Filter(IF up THEN true_fields ELSE Reverse(true_fields), Kept)
                 IN  IF front THEN extra \o kept ELSE kept \o extra] :
        missing \in SUBSET {"ID", "PF", "geometry"}, extra \in SeqsOfDistinct(OtherFields, n),
        up \in BOOLEAN, front \in BOOLEAN}

CallSchema ==
    Execute("check_fields_lin_tram_ppta", check_fields_lin_tram_ppta(call.fields))

\* C20: check_fields_lin_tram_ppta logs its info entry exactly when every one
\* of the 12 required fields is among the fields of the layer, whatever their
\* order and whatever other fields the layer has, and its error entry
\* otherwise.
C20_SchemaFields ==
    IsCall("check_fields_lin_tram_ppta") =>
        \A c \in 1..Len(result) :
            /\ ~result[c].exc
            /\ Len(true_fields) = 12
            /\ result[c].out =
                  IF Range(true_fields) \subseteq Range(call.fields)
                  THEN <<Entry(INFO, <<"L'estructura de camps de Lin_TramPpta és correcte">>)>>
                  ELSE <<Entry(ERROR, <<"L'estructura de camps de Lin_TramPpta NO és correcte">>)>>

\* C20, its case: a layer of 12 fields or more in the reverse order, one of
\* the required fields missing, found not to have the required structure.
C20_Witness ==
    /\ IsCall("check_fields_lin_tram_ppta")
    /\ Len(call.fields) >= Len(true_fields)
    /\ call.fields[1] = "geometry"
    /\ ~InList("PF", call.fields)
    /\ Len(result) >= 1
    /\ result[1].out[1].level = ERROR

\* C23: a validator leaves the layers it reads as they were loaded: after
\* check_3termes the marker-point layer has the columns it had, and the rows
\* in their order.
C23_ValidatorsLeaveLayers ==
    [][IsCall("check_3termes") => call' = call]_vars

\* The line layer of check_lin_tram_geometry: n segments, each sound, empty,
\* closed to a ring, or multi-part.
TramKinds == {"sound", "empty", "ring", "multi"}

\* The vertices of a segment closed to a ring.
Loop == << <<0, 0>>, <<1000, 0>>, <<1000, 1000>>, <<0, 0>> >>

GeometryCalls(n) ==
    {[f |-> "check_lin_tram_geometry",
      lin_tram |-> [k \in 1..n |->
                      [BaseTram("1") EXCEPT
                          !.ID = <<"T", ToString(k)>>,
                          !.empty = kind[k] = "empty",
                          !.ring = kind[k] = "ring",
                          !.simple = kind[k] # "ring",
                          !.gtype = IF kind[k] = "multi" THEN "MultiLineString" ELSE @,
                          !.coords = CASE kind[k] = "empty" -> <<>>
                                       [] kind[k] = "ring" -> Loop
                                       [] OTHER -> @]]] :
        kind \in [1..n -> TramKinds]}

CallGeometry ==
    Execute("check_lin_tram_geometry", check_lin_tram_geometry([lin_tram |-> call.lin_tram]))

\* C25: check_lin_tram_geometry logs the 'empty' error for exactly the empty
\* segments, the 'ring' error for exactly the segments with a ring and the
\* 'multi-part' error for exactly the multi-part segments, one each, and its
\* info entry exactly when no segment has any of the three defects.
C25_TramGeometry ==
    IsCall("check_lin_tram_geometry") =>
        \A c \in 1..Len(result) :
            LET out == result[c].out
                trams == call.lin_tram
                One(b) == IF b THEN 1 ELSE 0
            IN  /\ ~result[c].exc
                /\ \A k \in 1..Len(trams) :
                      /\ CountOf(out, EmptyTramMsg(trams[k])) = One(trams[k].empty)
                      /\ CountOf(out, RingTramMsg(trams[k])) = One(trams[k].ring)
                      /\ CountOf(out, MultiPartMsg(trams[k])) = One(IsMultiPart(trams[k]))
                /\ (\E k \in 1..Len(out) : out[k].level = INFO)
                      <=> \A k \in 1..Len(trams) :
                             ~trams[k].empty /\ ~trams[k].ring /\ ~IsMultiPart(trams[k])

\* The line layer of the two checks against the reference lines: n segments,
\* each containing none, one or two of the reference lines.
ReferenceCalls(n) ==
    {[f |-> "check_line_overlaps_db",
      lin_tram |-> [k \in 1..n |->
                      [BaseTram("1") EXCEPT !.ID = <<"T", ToString(k)>>, !.db = db[k]]]] :
        db \in [1..n -> 0..2]}

\* check_topology, lines 713-715: check_line_intersects_db, then
\* check_line_overlaps_db, on the same layers.
CallReference ==
    Execute("check_line_overlaps_db",
            LET L == [lin_tram |-> call.lin_tram] IN
            ThenAll(<<check_line_intersects_db(L), check_line_overlaps_db(L)>>))

ValidatorCalls(ids) ==
    RelationCalls(ids)
        \cup UNION {AuxiliaryCalls(n) : n \in 0..MaxPoints}
        \cup UNION {EndpointCalls(n) : n \in 0..MaxPoints}
        \cup UNION {CrossCalls(n) : n \in 0..MaxPoints}
        \cup UNION {FoundCalls(n) : n \in 0..MaxPoints}
        \cup UNION {TermesCalls(n) : n \in 0..MaxPoints}
        \cup UNION {SchemaCalls(n) : n \in 0..MaxPoints}
        \cup UNION {GeometryCalls(n) : n \in 0..MaxPoints}
        \cup UNION {ReferenceCalls(n) : n \in 0..MaxPoints}

InitValidator == InitAlone(ValidatorCalls(PointIndexes))

NextValidator ==
    \/ CallRelation
    \/ CallAuxiliary
    \/ CallEndpoint
    \/ CallCross
    \/ CallFound
    \/ CallTermes
    \/ CallSchema
    \/ CallGeometry
    \/ CallReference

SpecValidator == InitValidator /\ [][NextValidator]_vars

\* C15: a request for a line whose folder holds scenario A (the required
\* fields, every marker on the line, ORDPF populated, no marker found) is
\* answered with result OK and a report without an entry of level ERROR.
C15_ScenarioA ==
    \A r \in Runs :
        (Answered(r) /\ run[r].folder = "clean" /\ run[r].missing = {}) =>
            /\ run[r].resp.result = "OK"
            /\ \A i \in 1..Len(run[r].resp.reports) :
                  run[r].resp.reports[i].level[1] # ERROR

\* The place of a validator in the order the specification gives; the
\* Schema Validator first.
OrderOf(by) ==
    CASE by = "check_fields_lin_tram_ppta" -> 0
      [] by = "check_line_id_exists" -> 1
      [] by = "check_points_decimals" -> 2
      [] by = "info_p_proposta" -> 3
      [] by = "check_found_points" -> 4
      [] by = "check_3termes" -> 5
      [] by = "check_relation_points_tables" -> 6
      [] by = "check_topology" -> 7
      [] OTHER -> -1

\* C21: in every run the entry of the Schema Validator comes before the
\* first entry of any attribute or topology validator, the duplicate-line-ID
\* check among them, and the validators log in the order duplicate-line-ID,
\* decimal precision, proposal table, found markers, three-municipality
\* points, cross-table references, topology.
C21_FixedOrder ==
    \A r \in Runs :
        \A i, j \in 1..Len(run[r].emitted) :
            LET a == OrderOf(run[r].emitted[i].by)
                b == OrderOf(run[r].emitted[j].by)
            IN  (i < j /\ a >= 0 /\ b >= 0) => a <= b

\* The steps that come after the workspace gates.
CheckTags == {"check_fields_lin_tram_ppta", "check_fields_content_lint_tram_ppta"} \cup ValidatorTags

\* C22: a run whose folder lacks a layer of SHAPES_LIST or a table of
\* TABLE_LIST, whichever, is stopped by the check that the entities exist:
\* it goes no further, and it is answered with result error and that gate's
\* message without any validator having logged an entry.
C22_MissingEntityGate ==
    \A r \in Runs :
        run[r].missing # {} =>
            /\ Answered(r)
            /\ run[r].gate = "entities"
            /\ run[r].resp.result = "error"
            /\ run[r].resp.message[1] = "Falten capes o taules necessaries pel procés de control de qualitat. Si us plau, revisa que totes les capes i taules"
            /\ \A i \in 1..Len(run[r].emitted) : run[r].emitted[i].by \notin CheckTags

\* C24: no message a run logs holds the character '-' on which
\* add_response_data splits the lines of the log: not the first entry, with
\* the line identifier and the date and time of the check, and not the
\* entries with segment identifiers or photo filenames of the input.
C24_NoSeparatorInMessages ==
    \A r \in Runs :
        \A i \in 1..Len(run[r].emitted) : ~InList(DASH, run[r].emitted[i].msg)

=============================================================================
